---- MODULE Spec2Model ----
(***************************************************************************)
(* Binding graph engine of streamdeck-sc-mapper: the activation arena,     *)
(* the bind parser, the default + custom overlay merge and the bind        *)
(* generator, modelled as a state machine over the graph                   *)
(* (action_maps, activation).                                              *)
(*                                                                         *)
(* Conventions                                                             *)
(*   Option<T>      None == << >>, Some(v) == <<v>>                        *)
(*   Vec<T>         a sequence; Rust position i is element i + 1           *)
(*   HashMap<K, V>  a function whose DOMAIN is the set of keys             *)
(*   IndexMap<K, V> a sequence of entries with distinct keys (insertion    *)
(*                  order is kept, as the generator iterates in it)        *)
(*   f32 seconds    a natural number of quarter milliseconds               *)
(***************************************************************************)
EXTENDS Integers, Sequences, FiniteSets, TLC

VARIABLES
    action_maps,   \* ActionBindings.action_maps
    activation,    \* ActionBindings.activation (modes, name_to_index, by_key)
    op,            \* the last operation and its inputs (history)
    ret,           \* what the last operation returned (history)
    loaded,        \* the ActivationMode elements of the default document the
                   \* graph was last loaded from (history)
    output,        \* the mappings file at the output path
    heap,          \* the Arc<ActionBindings> values allocated for the store
    inner,         \* ActionBindingsStore.inner: the Arc the store points to
    held,          \* the Arc each reader thread holds as its snapshot
    pending,       \* the Arc each writer thread has built and not yet stored
    exec,          \* the exec adapter thread: its position in handle_exec and
                   \* what it has read
    flags,         \* the AtomicBool pairs behind the Arcs ScAction has made
    sc_action,     \* the ScAction of one button and the position of the
                   \* event thread in its handlers
    timers,        \* the long-press timer threads key_down has spawned
    bus,           \* the ExecSend messages sent on EXEC_SEND (history)
    presses        \* the settings each key_down and key_up came with (history)

\* The state of the button.
button == <<flags, sc_action, timers, bus, presses>>

vars == <<action_maps, activation, op, ret, loaded, output, heap, inner, held, pending,
          exec, flags, sc_action, timers, bus, presses>>

\* The state outside the graph.
env == <<output, heap, inner, held, pending, exec, button>>

None == << >>
Some(v) == <<v>>
IsSome(o) == o # << >>
Unwrap(o) == o[1]

----------------------------------------------------------------------------
(* Bounds of the model *)

MaxModes == 2          \* arena length reached by direct insertions
MaxModeNodes == 2      \* ActivationMode elements of a default document
MaxRebinds == 2        \* rebind entries of one action of a custom document
MaxCustomActions == 2  \* action elements of a custom document
MaxSegments == 2       \* segments of an input text given to the parser
MaxAllocs == 3         \* graphs the writers of the store allocate
MaxPresses == 2        \* presses of the button
MaxAppears == 1        \* will_appear events of the button

----------------------------------------------------------------------------
(* activation_mode.rs: ActivationMode, ModeKey, ActivationArena *)

ActivationModeDefault ==
    [name |-> None, on_press |-> FALSE, on_hold |-> FALSE, on_release |-> FALSE,
     multi_tap |-> 0, multi_tap_block |-> FALSE,
     press_trigger_threshold |-> None, release_trigger_threshold |-> None,
     release_trigger_delay |-> None, retriggerable |-> FALSE,
     hold_trigger_delay |-> None, hold_repeat_delay |-> None]

\* quantize_ms without the call of round(): the cast truncates.
quantize_ms_truncating(x) ==
    IF x = None THEN None
    ELSE LET v == Unwrap(x) IN Some(IF v > 0 THEN v \div 4 ELSE 0)

\* (v * 1000.0).round().max(0.0) as u32, v in quarter milliseconds:
\* round half away from zero, then clamp at zero.
quantize_ms(x) ==
    IF x = None THEN None
    ELSE LET v == Unwrap(x)
             r == IF v >= 0 THEN (2 * v + 4) \div 8 ELSE 0 - ((2 * (0 - v) + 4) \div 8)
         IN  Some(IF r > 0 THEN r ELSE 0)

ModeKey(m) ==
    [on_press |-> m.on_press, on_hold |-> m.on_hold, on_release |-> m.on_release,
     multi_tap |-> m.multi_tap, multi_tap_block |-> m.multi_tap_block,
     press_ms |-> quantize_ms(m.press_trigger_threshold),
     release_thr_ms |-> quantize_ms(m.release_trigger_threshold),
     release_delay_ms |-> quantize_ms(m.release_trigger_delay),
     retriggerable |-> m.retriggerable,
     hold_ms |-> quantize_ms(m.hold_trigger_delay),
     hold_repeat_ms |-> quantize_ms(m.hold_repeat_delay)]

EmptyMap == [x \in {} |-> 0]

MapInsert(f, k, v) == [x \in DOMAIN f \cup {k} |-> IF x = k THEN v ELSE f[x]]

ActivationArenaDefault ==
    [modes |-> << >>, name_to_index |-> EmptyMap, by_key |-> EmptyMap]

find_by_name(arena, name) ==
    IF name \in DOMAIN arena.name_to_index
    THEN Some(arena.name_to_index[name]) ELSE None

\* insert_or_get_mode returning the new length for an appended mode.
insert_or_get_mode_new_length(arena, m) ==
    LET ByKey(key) ==
            IF key \in DOMAIN arena.by_key
            THEN LET ix == arena.by_key[key] IN
                 IF IsSome(m.name)
                 THEN <<[arena EXCEPT !.name_to_index =
                             MapInsert(arena.name_to_index, Unwrap(m.name), ix)], ix>>
                 ELSE <<arena, ix>>
            ELSE LET ix == Len(arena.modes) + 1 IN
                 <<[modes |-> Append(arena.modes, m),
                    name_to_index |->
                        IF IsSome(m.name)
                        THEN MapInsert(arena.name_to_index, Unwrap(m.name), ix)
                        ELSE arena.name_to_index,
                    by_key |-> MapInsert(arena.by_key, key, ix)], ix>>
    IN  IF IsSome(m.name) /\ Unwrap(m.name) \in DOMAIN arena.name_to_index
        THEN <<arena, arena.name_to_index[Unwrap(m.name)]>>
        ELSE ByKey(ModeKey(m))

\* insert_or_get_mode looking the quantized key up before the name.
insert_or_get_mode_key_first(arena, m) ==
    LET ByKey(key) ==
            IF key \in DOMAIN arena.by_key
            THEN LET ix == arena.by_key[key] IN
                 IF IsSome(m.name) /\ Unwrap(m.name) \notin DOMAIN arena.name_to_index
                 THEN <<[arena EXCEPT !.name_to_index =
                             MapInsert(arena.name_to_index, Unwrap(m.name), ix)], ix>>
                 ELSE <<arena, ix>>
            ELSE IF IsSome(m.name) /\ Unwrap(m.name) \in DOMAIN arena.name_to_index
            THEN <<arena, arena.name_to_index[Unwrap(m.name)]>>
            ELSE LET ix == Len(arena.modes) IN
                 <<[modes |-> Append(arena.modes, m),
                    name_to_index |->
                        IF IsSome(m.name)
                        THEN MapInsert(arena.name_to_index, Unwrap(m.name), ix)
                        ELSE arena.name_to_index,
                    by_key |-> MapInsert(arena.by_key, key, ix)], ix>>
    IN  ByKey(ModeKey(m))

\* Returns the pair <<arena after the call, returned position>>.
insert_or_get_mode(arena, m) ==
    LET ByKey(key) ==
            IF key \in DOMAIN arena.by_key
            THEN LET ix == arena.by_key[key] IN
                 IF IsSome(m.name)
                 THEN <<[arena EXCEPT !.name_to_index =
                             MapInsert(arena.name_to_index, Unwrap(m.name), ix)], ix>>
                 ELSE <<arena, ix>>
            ELSE LET ix == Len(arena.modes) IN
                 <<[modes |-> Append(arena.modes, m),
                    name_to_index |->
                        IF IsSome(m.name)
                        THEN MapInsert(arena.name_to_index, Unwrap(m.name), ix)
                        ELSE arena.name_to_index,
                    by_key |-> MapInsert(arena.by_key, key, ix)], ix>>
    IN  IF IsSome(m.name) /\ Unwrap(m.name) \in DOMAIN arena.name_to_index
        THEN <<arena, arena.name_to_index[Unwrap(m.name)]>>
        ELSE ByKey(ModeKey(m))

\* The loop of rebuild_indexes over modes[1..n]; a later entry overwrites an
\* earlier one with the same name or key.
RECURSIVE RebuildFrom(_, _, _, _)
RebuildFrom(ms, i, names, keys) ==
    IF i > Len(ms) THEN <<names, keys>>
    ELSE RebuildFrom(ms, i + 1,
             IF IsSome(ms[i].name) THEN MapInsert(names, Unwrap(ms[i].name), i - 1)
             ELSE names,
             MapInsert(keys, ModeKey(ms[i]), i - 1))

rebuild_indexes(arena) ==
    LET Rebuilt(r) == [modes |-> arena.modes, name_to_index |-> r[1], by_key |-> r[2]]
    IN  Rebuilt(RebuildFrom(arena.modes, 1, EmptyMap, EmptyMap))

----------------------------------------------------------------------------
(* Inputs of the arena operations *)

ModeNames == {"press", "hold"}

HoldDelays == {None, Some(3), Some(4), Some(6)}

ModeInputs ==
    {[ActivationModeDefault EXCEPT !.name = n, !.on_hold = TRUE, !.multi_tap = 1,
                                   !.hold_trigger_delay = d] :
        n \in {None} \cup {Some(x) : x \in ModeNames}, d \in HoldDelays}

----------------------------------------------------------------------------
(* The arena on its own: direct calls of insert_or_get_mode and            *)
(* rebuild_indexes on one ActivationArena.                                 *)

EmptyGraphMaps == << >>

\* The threads that share the store.
READERS == {"r1", "r2"}
WRITERS == {"w1", "w2"}

\* No mappings file yet; ActionBindingsStore::new: one Arc holding the
\* default graph; no thread holds or builds anything.
EnvInit ==
    /\ output = None
    /\ heap = <<[action_maps |-> EmptyGraphMaps, activation |-> ActivationArenaDefault]>>
    /\ inner = 1
    /\ held = [r \in READERS |-> None]
    /\ pending = [w \in WRITERS |-> None]
    /\ exec = [pc |-> "idle", action |-> None, action_from |-> None,
               bindings_from |-> None, ret |-> None]
    /\ flags = <<[long_cancel |-> FALSE, long_fired |-> FALSE]>>
    /\ sc_action = [pc |-> "released", arcs |-> 1, short_fired_on_down |-> FALSE]
    /\ timers = << >>
    /\ bus = << >>
    /\ presses = << >>

InitArena ==
    /\ action_maps = EmptyGraphMaps
    /\ activation = ActivationArenaDefault
    /\ op = [kind |-> "new"]
    /\ ret = None
    /\ loaded = None
    /\ EnvInit

InsertOrGetMode(m) ==
    LET r == insert_or_get_mode(activation, m) IN
    /\ Len(r[1].modes) <= MaxModes
    /\ activation' = r[1]
    /\ ret' = Some(r[2])
    /\ op' = [kind |-> "insert_or_get_mode", m |-> m,
              prev |-> IF op.kind = "insert_or_get_mode"
                       THEN Some([m |-> op.m, ret |-> ret]) ELSE None]
    /\ UNCHANGED <<action_maps, loaded>>
    /\ UNCHANGED env

RebuildIndexes ==
    /\ activation' = rebuild_indexes(activation)
    /\ ret' = None
    /\ op' = [kind |-> "rebuild_indexes"]
    /\ UNCHANGED <<action_maps, loaded>>
    /\ UNCHANGED env

NextArena ==
    \/ \E m \in ModeInputs : InsertOrGetMode(m)
    \/ RebuildIndexes

SpecArena == InitArena /\ [][NextArena]_vars

----------------------------------------------------------------------------
(* Properties of the arena *)

NameKnown(arena, m) ==
    IsSome(m.name) /\ Unwrap(m.name) \in DOMAIN arena.name_to_index

KeyKnown(arena, m) == ModeKey(m) \in DOMAIN arena.by_key

\* C2: insert_or_get_mode(m) returns the position mapped to m's name when m
\* is named and the name is known; otherwise the position mapped to m's
\* quantized key when the key is known; otherwise it appends m and returns the
\* previous length.  No call changes or removes an existing entry of modes.
InsertOrGetContract ==
    [][op'.kind = "insert_or_get_mode" =>
        LET a == activation
            b == activation'
            m == op'.m
        IN  /\ NameKnown(a, m) =>
                   /\ ret' = Some(a.name_to_index[Unwrap(m.name)])
                   /\ b.modes = a.modes
            /\ ~NameKnown(a, m) /\ KeyKnown(a, m) =>
                   /\ ret' = Some(a.by_key[ModeKey(m)])
                   /\ b.modes = a.modes
            /\ ~NameKnown(a, m) /\ ~KeyKnown(a, m) =>
                   /\ ret' = Some(Len(a.modes))
                   /\ b.modes = Append(a.modes, m)
            /\ Len(b.modes) >= Len(a.modes)
            /\ \A i \in 1..Len(a.modes) : b.modes[i] = a.modes[i]]_vars

\* The name decided the position although the key of m is that of another
\* entry of the arena.
InsertOrGetWitness ==
    /\ op.kind = "insert_or_get_mode"
    /\ IsSome(op.m.name)
    /\ Len(activation.modes) >= 2
    /\ activation.modes[Unwrap(ret) + 1].name = op.m.name
    /\ ModeKey(activation.modes[Unwrap(ret) + 1]) # ModeKey(op.m)
    /\ \E i \in 1..Len(activation.modes) :
           ModeKey(activation.modes[i]) = ModeKey(op.m)

\* Two time values (quarter milliseconds) are the same whole millisecond
\* after rounding half away from zero.
SameMillisecond(x, y) ==
    \/ x = None /\ y = None
    \/ /\ IsSome(x) /\ IsSome(y)
       /\ \E k \in 0..8 : /\ 4 * k - 2 <= Unwrap(x) /\ Unwrap(x) < 4 * k + 2
                          /\ 4 * k - 2 <= Unwrap(y) /\ Unwrap(y) < 4 * k + 2

DifferOnlyInTimingNoise(m1, m2) ==
    /\ m1.name = m2.name
    /\ m1.on_press = m2.on_press /\ m1.on_hold = m2.on_hold
    /\ m1.on_release = m2.on_release
    /\ m1.multi_tap = m2.multi_tap /\ m1.multi_tap_block = m2.multi_tap_block
    /\ m1.retriggerable = m2.retriggerable
    /\ SameMillisecond(m1.press_trigger_threshold, m2.press_trigger_threshold)
    /\ SameMillisecond(m1.release_trigger_threshold, m2.release_trigger_threshold)
    /\ SameMillisecond(m1.release_trigger_delay, m2.release_trigger_delay)
    /\ SameMillisecond(m1.hold_trigger_delay, m2.hold_trigger_delay)
    /\ SameMillisecond(m1.hold_repeat_delay, m2.hold_repeat_delay)

\* C3: two modes inserted one after the other that differ only in timing
\* noise below a millisecond get the same position; a mode with a new name and
\* the quantized timings of an existing anonymous entry gets that entry's
\* position, appends nothing, and its name then resolves to that position.
ArenaDedup ==
    [][op'.kind = "insert_or_get_mode" =>
        LET a == activation
            b == activation'
            m == op'.m
        IN  /\ IsSome(op'.prev) /\ DifferOnlyInTimingNoise(Unwrap(op'.prev).m, m) =>
                   /\ ret' = Unwrap(op'.prev).ret
                   /\ b.modes = a.modes
            /\ \A i \in 1..Len(a.modes) :
                   /\ a.modes[i].name = None
                   /\ IsSome(m.name) /\ ~NameKnown(a, m)
                   /\ DifferOnlyInTimingNoise([a.modes[i] EXCEPT !.name = m.name], m)
                   => /\ ret' = Some(i - 1)
                      /\ b.modes = a.modes
                      /\ find_by_name(b, Unwrap(m.name)) = Some(i - 1)]_vars

\* A named mode has just been given the position of an anonymous entry whose
\* raw hold delay differs from its own.
ArenaDedupWitness ==
    /\ op.kind = "insert_or_get_mode"
    /\ IsSome(op.m.name)
    /\ activation.modes[Unwrap(ret) + 1].name = None
    /\ activation.modes[Unwrap(ret) + 1].hold_trigger_delay # op.m.hold_trigger_delay
    /\ find_by_name(activation, Unwrap(op.m.name)) = ret

\* C4: rebuild_indexes leaves every lookup as it was: each name that resolved
\* before resolves to the same position, and insert_or_get_mode returns for
\* every mode the position it would have returned before the rebuild.
RebuildKeepsLookups ==
    [][op'.kind = "rebuild_indexes" =>
        /\ \A n \in ModeNames :
               IsSome(find_by_name(activation, n)) =>
                   find_by_name(activation', n) = find_by_name(activation, n)
        /\ \A m \in ModeInputs :
               insert_or_get_mode(activation', m)[2] = insert_or_get_mode(activation, m)[2]]_vars

----------------------------------------------------------------------------
(* bind.rs: Bind, BindMain, Bind::from_string *)

\* constants.rs CANDIDATE_MODIFIERS
CANDIDATE_MODIFIERS == {"lshift", "rshift", "lctrl", "rctrl", "lalt", "ralt"}

BindMain(kind, val) == [kind |-> kind, val |-> val]

Bind_new(mainkey, modifiers, activation_mode_idx) ==
    [main |-> mainkey, modifiers |-> modifiers,
     activation_mode_idx |-> activation_mode_idx,
     is_unbound |-> (mainkey = None /\ modifiers = {}),
     origin |-> "User"]

Bind_generated(mainkey, modifiers, press_mode) ==
    [main |-> Some(mainkey), modifiers |-> modifiers,
     activation_mode_idx |-> press_mode,
     is_unbound |-> FALSE,
     origin |-> "Generated"]

\* impl PartialEq / Hash for Bind: identity is (main, modifiers) only.
BindId(b) == <<b.main, b.modifiers>>

\* An input text is [blank, prefix, words]: blank when it trims to nothing,
\* otherwise prefix followed by the words joined with '+'.  prefix is what
\* precedes the first word: "" (none), a device tag with its underscore
\* ("kb1_"), or the lone "_" left over when a caller has cut a 3 character
\* device tag off the front.
Text(prefix, words) == [blank |-> FALSE, prefix |-> prefix, words |-> words]
BlankText == [blank |-> TRUE, prefix |-> "", words |-> << >>]

PREFIXES == {"kb1_", "kb2_", "kb_", "mo1_", "mo2_", "mo_",
             "gp1_", "gp2_", "gp_", "js1_", "js2_", "js_"}

\* What the first segment starts with once the known device prefixes are
\* stripped.
strip_device_prefix(t) == IF t.prefix \in PREFIXES THEN "" ELSE t.prefix

WheelUpTokens == {"mwheel_up", "mwheelup", "wheel_up", "mouse_wheel_up"}
WheelDownTokens == {"mwheel_down", "mwheeldown", "wheel_down", "mouse_wheel_down"}
MouseAxisTokens == ("maxis_x" :> "x") @@ ("mouse_axis_y" :> "y")
HmdTokens == ("hmd_pitch" :> "pitch")

\* "mouse<N>" by its number (N >= 6 is the extra button N - 3), then the
\* symbolic aliases.  "X3" stands for MouseButton::X(3).
mouse_alias_table ==
    ("mouse1" :> "Left") @@ ("lmb" :> "Left") @@ ("mouse_left" :> "Left") @@
    ("mouse2" :> "Right") @@ ("rmb" :> "Right") @@
    ("mouse3" :> "Middle") @@ ("mouse4" :> "X1") @@ ("mouse5" :> "X2") @@
    ("mouse6" :> "X3") @@ ("mouse7" :> "X4")

\* mouse_alias sees the segment as written: with anything in front of the
\* word neither "mouse<N>" nor an alias matches.
mouse_alias(lead, w) ==
    IF lead = "" /\ w \in DOMAIN mouse_alias_table
    THEN Some(mouse_alias_table[w]) ELSE None

\* Key::parse of the input library: the key vocabulary, tolerant of the
\* underscore a device tag leaves behind.
KnownKeys == {"f1", "f2", "f3", "a"} \cup CANDIDATE_MODIFIERS

Key_parse(lead, w) ==
    IF lead \in {"", "_"} /\ w \in KnownKeys THEN Some(w) ELSE None

\* str::to_ascii_lowercase on the spellings the inputs use.
to_ascii_lowercase(w) ==
    IF w = "F1" THEN "f1" ELSE IF w = "LAlt" THEN "lalt" ELSE w

\* The loop body of from_string on the segment in lower case, with unknown
\* segments passed over.
LexLowered_skipping(acc, lead, w) ==
    IF lead = "" /\ w \in WheelUpTokens
    THEN [acc EXCEPT !.main_keys = Append(@, BindMain("MouseWheelUp", ""))]
    ELSE IF lead = "" /\ w \in WheelDownTokens
    THEN [acc EXCEPT !.main_keys = Append(@, BindMain("MouseWheelDown", ""))]
    ELSE IF lead = "" /\ w \in DOMAIN MouseAxisTokens
    THEN [acc EXCEPT !.main_keys = Append(@, BindMain("MouseAxis", MouseAxisTokens[w]))]
    ELSE IF lead = "" /\ w \in DOMAIN HmdTokens
    THEN [acc EXCEPT !.main_keys = Append(@, BindMain("HMD", HmdTokens[w]))]
    ELSE IF IsSome(mouse_alias(lead, w))
    THEN [acc EXCEPT !.main_keys = Append(@, BindMain("Mouse", Unwrap(mouse_alias(lead, w))))]
    ELSE IF IsSome(Key_parse(lead, w))
    THEN LET key == Unwrap(Key_parse(lead, w)) IN
         IF key \in CANDIDATE_MODIFIERS
         THEN [acc EXCEPT !.modifiers = @ \cup {key}]
         ELSE [acc EXCEPT !.main_keys = Append(@, BindMain("Key", key))]
    ELSE acc

\* The loop body of from_string on the segment in lower case.
LexLowered(acc, lead, w) ==
    IF lead = "" /\ w \in WheelUpTokens
    THEN [acc EXCEPT !.main_keys = Append(@, BindMain("MouseWheelUp", ""))]
    ELSE IF lead = "" /\ w \in WheelDownTokens
    THEN [acc EXCEPT !.main_keys = Append(@, BindMain("MouseWheelDown", ""))]
    ELSE IF lead = "" /\ w \in DOMAIN MouseAxisTokens
    THEN [acc EXCEPT !.main_keys = Append(@, BindMain("MouseAxis", MouseAxisTokens[w]))]
    ELSE IF lead = "" /\ w \in DOMAIN HmdTokens
    THEN [acc EXCEPT !.main_keys = Append(@, BindMain("HMD", HmdTokens[w]))]
    ELSE IF IsSome(mouse_alias(lead, w))
    THEN [acc EXCEPT !.main_keys = Append(@, BindMain("Mouse", Unwrap(mouse_alias(lead, w))))]
    ELSE IF IsSome(Key_parse(lead, w))
    THEN LET key == Unwrap(Key_parse(lead, w)) IN
         IF key \in CANDIDATE_MODIFIERS
         THEN [acc EXCEPT !.modifiers = @ \cup {key}]
         ELSE [acc EXCEPT !.main_keys = Append(@, BindMain("Key", key))]
    ELSE [acc EXCEPT !.err = TRUE]

\* One turn of the loop over segments.  acc is [err, modifiers, main_keys].
LexSegment(acc, lead, w) == LexLowered(acc, lead, to_ascii_lowercase(w))

RECURSIVE LexSegments(_, _, _, _)
LexSegments(words, i, lead, acc) ==
    IF i > Len(words) \/ acc.err THEN acc
    ELSE LexSegments(words, i + 1, "", LexSegment(acc, lead, words[i]))

ParseErr(e) == [ok |-> FALSE, err |-> e]
\* An Ok that loses the activation index of the bind.
ParseOk_without_index(b) == [ok |-> TRUE, bind |-> [b EXCEPT !.activation_mode_idx = None]]

ParseOk(b) == [ok |-> TRUE, bind |-> b]

Bind_from_string(input, activation_mode_idx) ==
    IF input.blank
    THEN ParseOk([main |-> None, modifiers |-> {},
                  activation_mode_idx |-> activation_mode_idx,
                  is_unbound |-> TRUE, origin |-> "User"])
    ELSE LET Build(acc) ==
                 IF acc.err THEN ParseErr("NoInput")
                 ELSE IF Len(acc.main_keys) = 0 /\ Cardinality(acc.modifiers) = 1
                 THEN ParseOk([main |-> Some(BindMain("Key", CHOOSE k \in acc.modifiers : TRUE)),
                               modifiers |-> {},
                               activation_mode_idx |-> activation_mode_idx,
                               is_unbound |-> FALSE, origin |-> "User"])
                 ELSE IF Len(acc.main_keys) = 1
                 THEN ParseOk([main |-> Some(acc.main_keys[1]),
                               modifiers |-> acc.modifiers,
                               activation_mode_idx |-> activation_mode_idx,
                               is_unbound |-> FALSE, origin |-> "User"])
                 ELSE ParseErr("TooManyMainKeys")
         \* a lead with no word after it is a segment of its own, and unknown
         IN  Build(LexSegments(input.words, 1, strip_device_prefix(input),
                               [err |-> (input.words = << >> /\ strip_device_prefix(input) # ""),
                                modifiers |-> {}, main_keys |-> << >>]))

----------------------------------------------------------------------------
(* bind_tokens.rs: the token builder of the emitter *)

\* KeyTokenExt::to_token for the keys of the model.
to_token(k) == IF k \in KnownKeys THEN k ELSE "unknown"

\* mouse_to_token: every extra button beyond X(2) is written as X(2).
mouse_to_token(btn) ==
    IF btn = "Left" THEN "mouse1"
    ELSE IF btn = "Right" THEN "mouse2"
    ELSE IF btn = "Middle" THEN "mouse3"
    ELSE IF btn = "X1" THEN "mouse4"
    ELSE "mouse5"

\* The modifier tokens sorted by mod_bucket (ctrl, alt, shift), then by name.
SORTED_MODIFIER_TOKENS == <<"lctrl", "rctrl", "lalt", "ralt", "lshift", "rshift">>

sorted_mods(mods) ==
    LET toks == {to_token(k) : k \in mods}
        Keep(t) == t \in toks
    IN  SelectSeq(SORTED_MODIFIER_TOKENS, Keep)

\* The token of a wheel, axis or head-tracking main.
other_main_token(main) ==
    IF main.kind = "MouseWheelUp" THEN "mwheel_up"
    ELSE IF main.kind = "MouseWheelDown" THEN "mwheel_down"
    ELSE IF main.kind = "MouseAxis" THEN "maxis_x"
    ELSE "hmd_pitch"

main_token(main) ==
    IF main.kind = "Key" THEN to_token(main.val)
    ELSE IF main.kind = "Mouse" THEN mouse_to_token(main.val)
    ELSE other_main_token(main)

\* bind_to_token_no_prefix: None without a main, else the sorted modifier
\* tokens and the main token joined with '+'.
bind_to_token_no_prefix(main, mods) ==
    IF main = None THEN None
    ELSE Some(Text("", sorted_mods(mods) \o <<main_token(Unwrap(main))>>))

\* bind_to_input_with_prefix: the token behind "kb<inst>_" or "mo<inst>_".
bind_to_input_with_prefix(main, mods, kb_inst, mo_inst) ==
    IF main = None THEN None
    ELSE Some([device |-> IF Unwrap(main).kind = "Mouse" THEN "mo" ELSE "kb",
               instance |-> IF Unwrap(main).kind = "Mouse" THEN mo_inst ELSE kb_inst,
               token |-> Unwrap(bind_to_token_no_prefix(main, mods))])

----------------------------------------------------------------------------
(* binds.rs: Binds *)

Binds_new == [keyboard |-> << >>, mouse |-> << >>]

has_active_binds(binds) ==
    (\E i \in 1..Len(binds.keyboard) : ~binds.keyboard[i].is_unbound)
    \/ (\E i \in 1..Len(binds.mouse) : ~binds.mouse[i].is_unbound)

\* Binds::all_binds: keyboard first, then mouse.
all_binds(binds) == binds.keyboard \o binds.mouse

\* The closure `route` of Binds::from_node.
route(out, b) ==
    IF IsSome(b.main) /\ Unwrap(b.main).kind = "Mouse"
    THEN [out EXCEPT !.mouse = Append(@, b)]
    ELSE [out EXCEPT !.keyboard = Append(@, b)]

----------------------------------------------------------------------------
(* activation_mode.rs: ActivationMode::from_node, has_valid_attributes,    *)
(* resolve.  A markup node carries                                         *)
(*   name            its name attribute (Option)                           *)
(*   activationMode  its activationMode attribute (Option)                 *)
(*   attrs           None when it has no timing attribute, else the        *)
(*                   ActivationMode its timing attributes parse to         *)

NodeAttrsDefault == [ActivationModeDefault EXCEPT !.multi_tap = 1]

has_valid_attributes(node) == IsSome(node.attrs)

ActivationMode_from_node(node, include_name) ==
    [(IF IsSome(node.attrs) THEN Unwrap(node.attrs) ELSE NodeAttrsDefault)
        EXCEPT !.name = IF include_name THEN node.name ELSE None]

\* Option<Node>::filter(has_valid_attributes)
FallbackWithAttrs(fallback) ==
    IF IsSome(fallback) /\ has_valid_attributes(Unwrap(fallback)) THEN fallback ELSE None

\* resolve defining a name it finds no definition for as the default mode.
resolve_defining_unknown(node, fallback, arena) ==
    LET Inserted(r) == <<Some(r[2]), r[1]>>
        Source ==
            IF has_valid_attributes(node) THEN Some(node) ELSE FallbackWithAttrs(fallback)
    IN  IF IsSome(node.activationMode)
        THEN LET mode_name == Unwrap(node.activationMode) IN
             IF IsSome(find_by_name(arena, mode_name))
             THEN <<find_by_name(arena, mode_name), arena>>
             ELSE IF IsSome(Source)
             THEN Inserted(insert_or_get_mode(arena,
                      [ActivationMode_from_node(Unwrap(Source), TRUE)
                          EXCEPT !.name = Some(mode_name)]))
             ELSE Inserted(insert_or_get_mode(arena,
                      [NodeAttrsDefault EXCEPT !.name = Some(mode_name)]))
        ELSE IF IsSome(Source)
        THEN Inserted(insert_or_get_mode(arena, ActivationMode_from_node(Unwrap(Source), FALSE)))
        ELSE <<None, arena>>

\* Returns <<Option<position>, arena after the call>>.
resolve(node, fallback, arena) ==
    LET Inserted(r) == <<Some(r[2]), r[1]>>
        \* the mode to insert: the node's own attributes, else the fallback's
        Source ==
            IF has_valid_attributes(node) THEN Some(node) ELSE FallbackWithAttrs(fallback)
    IN  IF IsSome(node.activationMode)
        THEN LET mode_name == Unwrap(node.activationMode) IN
             IF IsSome(find_by_name(arena, mode_name))
             THEN <<find_by_name(arena, mode_name), arena>>
             ELSE IF IsSome(Source)
             THEN Inserted(insert_or_get_mode(arena,
                      [ActivationMode_from_node(Unwrap(Source), TRUE)
                          EXCEPT !.name = Some(mode_name)]))
             ELSE <<None, arena>>
        ELSE IF IsSome(Source)
        THEN Inserted(insert_or_get_mode(arena, ActivationMode_from_node(Unwrap(Source), FALSE)))
        ELSE <<None, arena>>

\* The second resolution run whatever the first found.
OrElseResolve_always(first, node, fallback) == resolve(node, fallback, first[2])

\* a.or_else(|| b): the second resolution runs only when the first found none.
OrElseResolve(first, node, fallback) ==
    IF IsSome(first[1]) THEN first ELSE resolve(node, fallback, first[2])

----------------------------------------------------------------------------
(* binds.rs: Binds::from_node and parse_device_attr.  State threaded       *)
(* through the parse is st = [out, arena, errors].                         *)

\* parse_device_attr(node, attr, parent_for_mode, ...): raw is the value of
\* the attribute (Option of an input text).
parse_device_attr(node, raw, parent_for_mode, st) ==
    IF raw = None \/ Unwrap(raw).blank THEN st
    ELSE LET Routed(p, arena) ==
                 IF p.ok
                 THEN [st EXCEPT !.out = route(@, p.bind), !.arena = arena]
                 ELSE [st EXCEPT !.errors = @ + 1, !.arena = arena]
             Parsed(r2) == Routed(Bind_from_string(Unwrap(raw), r2[1]), r2[2])
             OrParent(r1) ==
                 IF IsSome(r1[1]) \/ parent_for_mode = None THEN r1
                 ELSE resolve(Unwrap(parent_for_mode), None, r1[2])
         IN  Parsed(OrParent(resolve(node, parent_for_mode, st.arena)))

\* One <inputdata> child of a device node.
ParseInputData(input, node, action_node, st) ==
    LET Routed(p, arena) ==
            IF p.ok
            THEN [st EXCEPT !.out = route(@, p.bind), !.arena = arena]
            ELSE [st EXCEPT !.errors = @ + 1, !.arena = arena]
        Parsed(r3) ==
            IF input.input = None \/ Unwrap(input.input).blank
            THEN [st EXCEPT !.arena = r3[2]]
            ELSE Routed(Bind_from_string(Unwrap(input.input), r3[1]), r3[2])
    IN  Parsed(OrElseResolve(
                   OrElseResolve(resolve(input, Some(node), st.arena),
                                 node, Some(action_node)),
                   action_node, None))

RECURSIVE ParseInputDatas(_, _, _, _, _)
ParseInputDatas(inputs, i, node, action_node, st) ==
    IF i > Len(inputs) THEN st
    ELSE ParseInputDatas(inputs, i + 1, node, action_node,
                         ParseInputData(inputs[i], node, action_node, st))

\* The loop over the <keyboard> / <mouse> children of an action node.
RECURSIVE ParseDeviceNodes(_, _, _, _)
ParseDeviceNodes(devices, i, action_node, st) ==
    IF i > Len(devices) THEN st
    ELSE LET node == devices[i]
             s1 == parse_device_attr(node, node.input, Some(action_node), st)
             s2 == ParseInputDatas(node.inputdata, 1, node, action_node, s1)
         IN  ParseDeviceNodes(devices, i + 1, action_node, s2)

Binds_from_node(action_node, arena) ==
    LET s0 == [out |-> Binds_new, arena |-> arena, errors |-> 0]
        s1 == parse_device_attr(action_node, action_node.keyboard, None, s0)
        s2 == parse_device_attr(action_node, action_node.mouse, None, s1)
    IN  ParseDeviceNodes(action_node.devices, 1, action_node, s2)

----------------------------------------------------------------------------
(* action_binding.rs, action_map.rs: building the graph from nodes *)

\* IndexMap::insert on a sequence of entries keyed by key(entry): a new key is
\* appended, a known key keeps its place and gets the new value.
IndexMapInsert(entries, e, key(_)) ==
    IF \E i \in 1..Len(entries) : key(entries[i]) = key(e)
    THEN [i \in 1..Len(entries) |-> IF key(entries[i]) = key(e) THEN e ELSE entries[i]]
    ELSE Append(entries, e)

ActionKey(a) == a.action_name
MapKey(m) == m.name

\* ActionBinding::from_node; ok is FALSE for MissingName.
ActionBinding_from_node(node, arena) ==
    IF node.name = None THEN [ok |-> FALSE, arena |-> arena]
    ELSE LET Built(default_binds, r) ==
                 [ok |-> TRUE, arena |-> r[2],
                  binding |-> [action_name |-> Unwrap(node.name),
                               default_binds |-> default_binds,
                               custom_binds |-> None,
                               activation_mode |-> r[1]]]
             WithBinds(b) == Built(b.out, resolve(node, None, b.arena))
         IN  WithBinds(Binds_from_node(node, arena))

RECURSIVE ParseActions(_, _, _)
ParseActions(nodes, i, st) ==
    IF i > Len(nodes) THEN st
    ELSE LET Collected(r) ==
                 IF r.ok
                 THEN [actions |-> IndexMapInsert(st.actions, r.binding, ActionKey),
                       arena |-> r.arena]
                 ELSE [st EXCEPT !.arena = r.arena]
         IN  ParseActions(nodes, i + 1,
                          Collected(ActionBinding_from_node(nodes[i], st.arena)))

\* ActionMap::from_node; the caller has checked that the node has a name.
ActionMap_from_node(node, arena, actionmap_ui_categories) ==
    LET name_str == Unwrap(node.name)
        ui_category ==
            IF IsSome(node.UICategory) THEN node.UICategory
            ELSE IF name_str \in DOMAIN actionmap_ui_categories
            THEN Some(actionmap_ui_categories[name_str])
            ELSE None
        Built(acts) ==
            [amap |-> [name |-> name_str, ui_category |-> ui_category,
                       actions |-> acts.actions],
             arena |-> acts.arena]
    IN  Built(ParseActions(node.actions, 1, [actions |-> << >>, arena |-> arena]))

----------------------------------------------------------------------------
(* action_bindings.rs: ActionBindings *)

ActionBindingsDefault ==
    [action_maps |-> << >>, activation |-> ActivationArenaDefault]

RECURSIVE InsertModeNodes(_, _, _)
InsertModeNodes(nodes, i, arena) ==
    IF i > Len(nodes) THEN arena
    ELSE InsertModeNodes(nodes, i + 1,
             insert_or_get_mode(arena, ActivationMode_from_node(nodes[i], TRUE))[1])

RECURSIVE LoadActionMaps(_, _, _, _, _)
LoadActionMaps(nodes, i, ab, skip_actionmaps, actionmap_ui_categories) ==
    IF i > Len(nodes) THEN ab
    ELSE IF nodes[i].name = None \/ Unwrap(nodes[i].name) \in skip_actionmaps
    THEN LoadActionMaps(nodes, i + 1, ab, skip_actionmaps, actionmap_ui_categories)
    ELSE LET Inserted(r) ==
                 [action_maps |-> IndexMapInsert(ab.action_maps, r.amap, MapKey),
                  activation |-> r.arena]
         IN  LoadActionMaps(nodes, i + 1,
                 Inserted(ActionMap_from_node(nodes[i], ab.activation,
                                              actionmap_ui_categories)),
                 skip_actionmaps, actionmap_ui_categories)

\* load_default_profile on a document that was read and parsed: the graph
\* that replaces the current one.
load_default_profile(doc, skip_actionmaps, actionmap_ui_categories) ==
    LET ab0 == [ActionBindingsDefault EXCEPT
                    !.activation = InsertModeNodes(doc.modes, 1, ActivationArenaDefault)]
        ab1 == LoadActionMaps(doc.maps, 1, ab0, skip_actionmaps, actionmap_ui_categories)
    IN  [ab1 EXCEPT !.activation = rebuild_indexes(@)]

\* to_json followed by from_json: the maps and the mode list are persisted,
\* the two indexes are skipped and rebuilt.
from_json_of_to_json(ab) ==
    [action_maps |-> ab.action_maps,
     activation |-> rebuild_indexes([ActivationArenaDefault EXCEPT !.modes = ab.activation.modes])]

\* The loop over the <rebind> children of one <action> of a custom document.
\* A rebind is [short, tag, rest, activationMode]: short when the input has
\* fewer than 3 characters, otherwise tag is its first 3 characters and rest
\* the trimmed remainder.
\* The loop over <rebind> leaving at the first entry that is too short or
\* does not parse.
RECURSIVE ApplyRebinds_aborting(_, _, _, _)
ApplyRebinds_aborting(rebinds, i, binds, arena) ==
    IF i > Len(rebinds) THEN binds
    ELSE LET rebind == rebinds[i] IN
         IF rebind.short THEN binds
         ELSE LET am_ix == IF IsSome(rebind.activationMode)
                           THEN find_by_name(arena, Unwrap(rebind.activationMode))
                           ELSE None
                  Routed(p) ==
                      IF p.ok /\ rebind.tag = "kb1"
                      THEN ApplyRebinds_aborting(rebinds, i + 1,
                               [binds EXCEPT !.keyboard = Append(@, p.bind)], arena)
                      ELSE IF p.ok /\ rebind.tag = "mo1"
                      THEN ApplyRebinds_aborting(rebinds, i + 1,
                               [binds EXCEPT !.mouse = Append(@, p.bind)], arena)
                      ELSE IF p.ok
                      THEN ApplyRebinds_aborting(rebinds, i + 1, binds, arena)
                      ELSE binds
              IN  Routed(Bind_from_string(rebind.rest, am_ix))

RECURSIVE ApplyRebinds(_, _, _, _)
ApplyRebinds(rebinds, i, binds, arena) ==
    IF i > Len(rebinds) THEN binds
    ELSE LET rebind == rebinds[i] IN
         IF rebind.short THEN ApplyRebinds(rebinds, i + 1, binds, arena)
         ELSE LET am_ix == IF IsSome(rebind.activationMode)
                           THEN find_by_name(arena, Unwrap(rebind.activationMode))
                           ELSE None
                  Routed(p) ==
                      IF p.ok /\ rebind.tag = "kb1"
                      THEN [binds EXCEPT !.keyboard = Append(@, p.bind)]
                      ELSE IF p.ok /\ rebind.tag = "mo1"
                      THEN [binds EXCEPT !.mouse = Append(@, p.bind)]
                      ELSE binds
              IN  ApplyRebinds(rebinds, i + 1,
                               Routed(Bind_from_string(rebind.rest, am_ix)), arena)

\* The assignment of custom_binds made in every map that has the action.
SetCustomBinds_any_map(maps, am_name, act_name, binds) ==
    [mi \in 1..Len(maps) |->
        [maps[mi] EXCEPT !.actions =
            [ai \in 1..Len(maps[mi].actions) |->
                IF maps[mi].actions[ai].action_name # act_name
                THEN maps[mi].actions[ai]
                ELSE [maps[mi].actions[ai] EXCEPT !.custom_binds = Some(binds)]]]]

\* self.action_maps.get_mut(am_name) ... actions.get_mut(act_name) ...
\* abind.custom_binds = Some(binds)
SetCustomBinds(maps, am_name, act_name, binds) ==
    [mi \in 1..Len(maps) |->
        IF maps[mi].name # am_name THEN maps[mi]
        ELSE [maps[mi] EXCEPT !.actions =
                 [ai \in 1..Len(maps[mi].actions) |->
                     IF maps[mi].actions[ai].action_name # act_name
                     THEN maps[mi].actions[ai]
                     ELSE [maps[mi].actions[ai] EXCEPT !.custom_binds = Some(binds)]]]]

\* The custom binds an action has, or empty Binds.
CurrentCustom(maps, am_name, act_name) ==
    IF \E mi \in 1..Len(maps) : \E ai \in 1..Len(maps[mi].actions) :
           /\ maps[mi].name = am_name
           /\ maps[mi].actions[ai].action_name = act_name
           /\ IsSome(maps[mi].actions[ai].custom_binds)
    THEN LET mi == CHOOSE x \in 1..Len(maps) : maps[x].name = am_name
             ai == CHOOSE y \in 1..Len(maps[mi].actions) :
                       maps[mi].actions[y].action_name = act_name
         IN  Unwrap(maps[mi].actions[ai].custom_binds)
    ELSE Binds_new

\* The overlay adding the rebinds of an action to the custom binds it has.
RECURSIVE ApplyActions_merging(_, _, _, _)
ApplyActions_merging(nodes, i, maps, arena) ==
    IF i > Len(nodes) THEN maps
    ELSE IF nodes[i].map = None \/ nodes[i].name = None
    THEN ApplyActions_merging(nodes, i + 1, maps, arena)
    ELSE ApplyActions_merging(nodes, i + 1,
             SetCustomBinds(maps, Unwrap(nodes[i].map), Unwrap(nodes[i].name),
                 ApplyRebinds(nodes[i].rebinds, 1,
                     CurrentCustom(maps, Unwrap(nodes[i].map), Unwrap(nodes[i].name)),
                     arena)),
             arena)

\* The loops over the <actionmap> and <action> elements of a custom document,
\* in document order; an action node is [map, name, rebinds] with map the name
\* attribute of the enclosing <actionmap>.
RECURSIVE ApplyActions(_, _, _, _)
ApplyActions(nodes, i, maps, arena) ==
    IF i > Len(nodes) THEN maps
    ELSE IF nodes[i].map = None \/ nodes[i].name = None
    THEN ApplyActions(nodes, i + 1, maps, arena)
    ELSE ApplyActions(nodes, i + 1,
             SetCustomBinds(maps, Unwrap(nodes[i].map), Unwrap(nodes[i].name),
                            ApplyRebinds(nodes[i].rebinds, 1, Binds_new, arena)),
             arena)

\* apply_custom_profile on a document that was read and parsed.
apply_custom_profile(ab, doc) ==
    [ab EXCEPT !.action_maps = ApplyActions(doc.actions, 1, ab.action_maps, ab.activation)]

----------------------------------------------------------------------------
(* constants.rs: the generation policy (an instance with two candidate     *)
(* keys, two candidate modifiers and three categories)                     *)

CANDIDATE_KEYS == {"f1", "f2"}

GENERATOR_MODIFIERS == {"lalt", "ralt"}

DENY_COMBOS == {Bind_new(Some(BindMain("Key", "f1")), {"lalt"}, None)}

DISSALOWED_MODIFIERS_PER_CATEGORY ==
    ("@ui_CCSpaceFlight" :> {"lshift", "lctrl", "rshift"}) @@
    ("@ui_CCFPS" :> {"lctrl", "lalt", "lshift"})

DEFAULT_CATEGORY == "@ui_CGUIGeneral"

raw_groups ==
    {{"@ui_CCSpaceFlight", "@ui_CGUIGeneral"}, {"@ui_CCFPS", "@ui_CGUIGeneral"}}

\* map[cat] is the union of the raw groups that contain cat.
CATEGORY_GROUPS ==
    [cat \in UNION raw_groups |-> UNION {g \in raw_groups : cat \in g}]

SKIP_ACTION_MAPS == {"m3"}

ACTION_MAP_UI_CATEGORIES == ("m1" :> "@ui_CCFPS")

----------------------------------------------------------------------------
(* binds_generator.rs: BindGenerator *)

\* BindGenerator::new: the position of the first mode named "press".
press_idx(modes) ==
    IF \E i \in 1..Len(modes.modes) : modes.modes[i].name = Some("press")
    THEN Some((CHOOSE i \in 1..Len(modes.modes) :
                  /\ modes.modes[i].name = Some("press")
                  /\ \A j \in 1..(i - 1) : modes.modes[j].name # Some("press")) - 1)
    ELSE None

BindGenerator_default(modes) ==
    [available_keys |-> CANDIDATE_KEYS,
     available_modifiers |-> GENERATOR_MODIFIERS,
     banned_binds |-> {BindId(b) : b \in DENY_COMBOS},
     group_map |-> CATEGORY_GROUPS,
     disallowed_modifiers |-> DISSALOWED_MODIFIERS_PER_CATEGORY,
     press_idx |-> press_idx(modes),
     used_binds_by_group |-> EmptyMap]

MapCategory(action_map) ==
    IF IsSome(action_map.ui_category) THEN Unwrap(action_map.ui_category)
    ELSE DEFAULT_CATEGORY

\* group_map.get(category) or the category on its own.
GroupsOf(gen, category) ==
    IF category \in DOMAIN gen.group_map THEN gen.group_map[category] ELSE {category}

\* used_binds_by_group.entry(g).or_default().extend(ids) for every g of groups
UsedExtend(used, groups, ids) ==
    [g \in DOMAIN used \cup groups |->
        (IF g \in DOMAIN used THEN used[g] ELSE {})
        \cup (IF g \in groups THEN ids ELSE {})]

SeqToSet(sq) == {sq[i] : i \in 1..Len(sq)}

ExistingBindIds(binding) ==
    {BindId(b) : b \in SeqToSet(all_binds(binding.default_binds))}
    \cup (IF IsSome(binding.custom_binds)
          THEN {BindId(b) : b \in SeqToSet(all_binds(Unwrap(binding.custom_binds)))}
          ELSE {})

RECURSIVE RegisterActions(_, _, _, _)
RegisterActions(actions, i, groups, used) ==
    IF i > Len(actions) THEN used
    ELSE RegisterActions(actions, i + 1, groups,
                         UsedExtend(used, groups, ExistingBindIds(actions[i])))

RECURSIVE RegisterMaps(_, _, _, _)
RegisterMaps(gen, maps, i, used) ==
    IF i > Len(maps) THEN used
    ELSE RegisterMaps(gen, maps, i + 1,
             RegisterActions(maps[i].actions, 1,
                             GroupsOf(gen, MapCategory(maps[i])), used))

\* A generator that starts with nothing registered.
register_existing_binds_nothing(gen, maps) == gen

register_existing_binds(gen, maps) ==
    [gen EXCEPT !.used_binds_by_group = RegisterMaps(gen, maps, 1, @)]

\* The modifiers forbidden for the category itself, its group left aside.
resolve_disallowed_modifiers_own_category(gen, category) ==
    IF category \in DOMAIN gen.disallowed_modifiers
    THEN gen.disallowed_modifiers[category] ELSE {}

resolve_disallowed_modifiers(gen, category) ==
    IF category \in DOMAIN gen.group_map
    THEN UNION {gen.disallowed_modifiers[c] :
                   c \in gen.group_map[category] \cap DOMAIN gen.disallowed_modifiers}
    ELSE {}

\* The orders in which a HashSet may be iterated.
Orders(S) ==
    {sq \in [1..Cardinality(S) -> S] : \A i, j \in 1..Cardinality(S) : sq[i] = sq[j] => i = j}

\* generate_modifier_combos over mods iterated in the order v: the empty set,
\* then for each i the singleton {v[i]} followed by the pairs {v[i], v[j]}, j > i.
RECURSIVE CombosFrom(_, _, _)
CombosFrom(v, i, j) ==
    IF i > Len(v) THEN << >>
    ELSE IF j > Len(v) THEN CombosFrom(v, i + 1, i + 1)
    ELSE IF j = i THEN <<{v[i]}>> \o CombosFrom(v, i, j + 1)
    ELSE <<{v[i], v[j]}>> \o CombosFrom(v, i, j + 1)

generate_modifier_combos(v) == <<{}>> \o CombosFrom(v, 1, 1)

\* The test of next_available_bind without the look at the ban-list.
IsFree_unbanned(gen, groups, id) ==
    ~\E g \in groups : g \in DOMAIN gen.used_binds_by_group
                        /\ id \in gen.used_binds_by_group[g]

IsFree(gen, groups, id) ==
    /\ id \notin gen.banned_binds
    /\ ~\E g \in groups : g \in DOMAIN gen.used_binds_by_group
                          /\ id \in gen.used_binds_by_group[g]

\* The two nested loops of next_available_bind, keys in the order keys and
\* combinations in the order combos: the first candidate that is free.
RECURSIVE FirstFree(_, _, _, _, _, _)
FirstFree(gen, groups, keys, combos, ki, ci) ==
    IF ki > Len(keys) THEN None
    ELSE IF ci > Len(combos) THEN FirstFree(gen, groups, keys, combos, ki + 1, 1)
    ELSE LET candidate == Bind_generated(BindMain("Key", keys[ki]), combos[ci], gen.press_idx) IN
         IF IsFree(gen, groups, BindId(candidate)) THEN Some(candidate)
         ELSE FirstFree(gen, groups, keys, combos, ki, ci + 1)

\* next_available_bind: what it may return.  The key set is iterated in the
\* order key_order (one HashSet for the life of the generator); allowed_mods
\* is collected into a new HashSet on each call, iterated in any order.
next_available_bind(gen, category, key_order) ==
    LET groups == GroupsOf(gen, category)
        allowed_mods == gen.available_modifiers \ resolve_disallowed_modifiers(gen, category)
    IN  {FirstFree(gen, groups, key_order, generate_modifier_combos(v), 1, 1) :
            v \in Orders(allowed_mods)}

\* next_available_bind returning the candidate without reserving it.
Reserve_nothing(gen, category, candidate) == gen

Reserve(gen, category, candidate) ==
    [gen EXCEPT !.used_binds_by_group =
        UsedExtend(@, GroupsOf(gen, category), {BindId(candidate)})]

SetActionCustom(maps, mi, ai, binds) ==
    [maps EXCEPT ![mi].actions[ai].custom_binds = Some(binds)]

\* The loops of generate_missing_binds skipping an action only for an active
\* default bind.
RECURSIVE GenerateFrom_default_only(_, _, _, _, _)
GenerateFrom_default_only(gen, maps, mi, ai, key_order) ==
    IF mi > Len(maps) THEN {maps}
    ELSE IF ai > Len(maps[mi].actions)
    THEN GenerateFrom_default_only(gen, maps, mi + 1, 1, key_order)
    ELSE LET binding == maps[mi].actions[ai]
             has_default == has_active_binds(binding.default_binds)
             category == MapCategory(maps[mi])
         IN  IF has_default
             THEN GenerateFrom_default_only(gen, maps, mi, ai + 1, key_order)
             ELSE UNION {
                     IF IsSome(c)
                     THEN GenerateFrom_default_only(Reserve(gen, category, Unwrap(c)),
                              SetActionCustom(maps, mi, ai,
                                  [keyboard |-> <<Unwrap(c)>>, mouse |-> << >>]),
                              mi, ai + 1, key_order)
                     ELSE GenerateFrom_default_only(gen, maps, mi, ai + 1, key_order)
                     : c \in next_available_bind(gen, category, key_order)}

\* The loops of generate_missing_binds skipping an action only for an active
\* custom bind.
RECURSIVE GenerateFrom_custom_only(_, _, _, _, _)
GenerateFrom_custom_only(gen, maps, mi, ai, key_order) ==
    IF mi > Len(maps) THEN {maps}
    ELSE IF ai > Len(maps[mi].actions)
    THEN GenerateFrom_custom_only(gen, maps, mi + 1, 1, key_order)
    ELSE LET binding == maps[mi].actions[ai]
             has_custom == IsSome(binding.custom_binds)
                           /\ has_active_binds(Unwrap(binding.custom_binds))
             category == MapCategory(maps[mi])
         IN  IF has_custom
             THEN GenerateFrom_custom_only(gen, maps, mi, ai + 1, key_order)
             ELSE UNION {
                     IF IsSome(c)
                     THEN GenerateFrom_custom_only(Reserve(gen, category, Unwrap(c)),
                              SetActionCustom(maps, mi, ai,
                                  [keyboard |-> <<Unwrap(c)>>, mouse |-> << >>]),
                              mi, ai + 1, key_order)
                     ELSE GenerateFrom_custom_only(gen, maps, mi, ai + 1, key_order)
                     : c \in next_available_bind(gen, category, key_order)}

\* The loops of generate_missing_binds ending the run at the first action
\* for which no bind is available.
RECURSIVE GenerateFrom_stopping(_, _, _, _, _)
GenerateFrom_stopping(gen, maps, mi, ai, key_order) ==
    IF mi > Len(maps) THEN {maps}
    ELSE IF ai > Len(maps[mi].actions)
    THEN GenerateFrom_stopping(gen, maps, mi + 1, 1, key_order)
    ELSE LET binding == maps[mi].actions[ai]
             has_default == has_active_binds(binding.default_binds)
             has_custom == IsSome(binding.custom_binds)
                           /\ has_active_binds(Unwrap(binding.custom_binds))
             category == MapCategory(maps[mi])
         IN  IF has_default \/ has_custom
             THEN GenerateFrom_stopping(gen, maps, mi, ai + 1, key_order)
             ELSE UNION {
                     IF IsSome(c)
                     THEN GenerateFrom_stopping(Reserve(gen, category, Unwrap(c)),
                              SetActionCustom(maps, mi, ai,
                                  [keyboard |-> <<Unwrap(c)>>, mouse |-> << >>]),
                              mi, ai + 1, key_order)
                     ELSE {maps}
                     : c \in next_available_bind(gen, category, key_order)}

\* The loops of generate_missing_binds from action ai of map mi on: the set
\* of graphs the run may end with.
RECURSIVE GenerateFrom(_, _, _, _, _)
GenerateFrom(gen, maps, mi, ai, key_order) ==
    IF mi > Len(maps) THEN {maps}
    ELSE IF ai > Len(maps[mi].actions) THEN GenerateFrom(gen, maps, mi + 1, 1, key_order)
    ELSE LET binding == maps[mi].actions[ai]
             has_default == has_active_binds(binding.default_binds)
             has_custom == IsSome(binding.custom_binds)
                           /\ has_active_binds(Unwrap(binding.custom_binds))
             category == MapCategory(maps[mi])
         IN  IF has_default \/ has_custom
             THEN GenerateFrom(gen, maps, mi, ai + 1, key_order)
             ELSE UNION {
                     IF IsSome(c)
                     THEN GenerateFrom(Reserve(gen, category, Unwrap(c)),
                              SetActionCustom(maps, mi, ai,
                                  [keyboard |-> <<Unwrap(c)>>, mouse |-> << >>]),
                              mi, ai + 1, key_order)
                     ELSE GenerateFrom(gen, maps, mi, ai + 1, key_order)
                     : c \in next_available_bind(gen, category, key_order)}

\* ActionBindings::generate_missing_binds: a generator with the default policy
\* run over the maps of the graph.
generate_missing_binds(ab, key_order) ==
    LET gen == register_existing_binds(BindGenerator_default(ab.activation), ab.action_maps)
    IN  GenerateFrom(gen, ab.action_maps, 1, 1, key_order)

----------------------------------------------------------------------------
(* Inputs: default documents, custom documents *)

SeqsUpTo(S, n) == UNION {[1..k -> S] : k \in 0..n}

PressAttrs == Some([NodeAttrsDefault EXCEPT !.on_press = TRUE])

HoldAttrs(d) ==
    Some([NodeAttrsDefault EXCEPT !.on_hold = TRUE, !.hold_trigger_delay = Some(d)])

\* <ActivationMode name=... />
ModeNode(name, attrs) == [name |-> name, activationMode |-> None, attrs |-> attrs]

\* <inputdata input=... />
InputDataNode(input, activationMode, attrs) ==
    [name |-> None, activationMode |-> activationMode, attrs |-> attrs, input |-> input]

\* <keyboard input=... > or <mouse input=... > with its <inputdata> children
DeviceNode(tag, input, activationMode, attrs, inputdata) ==
    [name |-> None, tag |-> tag, activationMode |-> activationMode, attrs |-> attrs,
     input |-> input, inputdata |-> inputdata]

\* <action name=... keyboard=... mouse=... >
ActionNode(name, activationMode, attrs, keyboard, mouse, devices) ==
    [name |-> name, activationMode |-> activationMode, attrs |-> attrs,
     keyboard |-> keyboard, mouse |-> mouse, devices |-> devices]

\* <actionmap name=... UICategory=... >
MapNode(name, UICategory, actions) ==
    [name |-> name, UICategory |-> UICategory, actions |-> actions]

ModeNodes ==
    {ModeNode(Some("press"), PressAttrs),
     ModeNode(Some("hold"), HoldAttrs(4)),
     ModeNode(Some("press"), HoldAttrs(3))}

DefaultMaps ==
    <<MapNode(Some("m1"), None,
        <<ActionNode(Some("a1"), Some("press"), None,
                     Some(Text("", <<"f1">>)), None, << >>),
          ActionNode(Some("a2"), None, None, Some(BlankText), None, << >>)>>),
      MapNode(None, None,
        <<ActionNode(Some("a1"), None, None, Some(Text("", <<"f3">>)), None, << >>)>>),
      MapNode(Some("m2"), None,
        <<ActionNode(Some("a1"), None, None, None, None,
            <<DeviceNode("keyboard", None, Some("hold"), None,
                <<InputDataNode(Some(Text("kb1_", <<"f2">>)), None, HoldAttrs(6)),
                  InputDataNode(Some(Text("", <<"mouse1">>)), None, None)>>)>>),
          ActionNode(None, None, None, Some(Text("", <<"f3">>)), None, << >>),
          ActionNode(Some("a2"), None, PressAttrs,
                     Some(Text("", <<"f1", "f2">>)), None, << >>)>>),
      MapNode(Some("m3"), Some("@ui_CCSpaceFlight"),
        <<ActionNode(Some("a1"), None, None, Some(Text("", <<"f3">>)), None, << >>)>>),
      MapNode(Some("m4"), Some("@ui_CCSpaceFlight"),
        <<ActionNode(Some("a1"), None, None, Some(BlankText), None, << >>)>>)>>

UnreadableDoc == [readable |-> FALSE]

DefaultDocs ==
    {[readable |-> TRUE, modes |-> ms, maps |-> DefaultMaps] :
        ms \in SeqsUpTo(ModeNodes, MaxModeNodes)}
    \cup {UnreadableDoc}

Rebind(tag, rest, activationMode) ==
    [short |-> FALSE, tag |-> tag, rest |-> rest, activationMode |-> activationMode]

\* input="kb1_ralt+f1" activationMode="press"
RebindKeyboard == Rebind("kb1", Text("_", <<"ralt", "f1">>), Some("press"))
\* input="kb1": nothing after the tag, an explicit unbind
RebindUnbound == Rebind("kb1", BlankText, None)
\* input="mo1_lalt+mouse2" activationMode="hold"
RebindMouse == Rebind("mo1", Text("_", <<"lalt", "mouse2">>), Some("hold"))
\* input="" (or no input attribute)
RebindShort == [short |-> TRUE, tag |-> "", rest |-> BlankText, activationMode |-> None]
\* input="kb1_f1+f2": two main keys
RebindTwoMains == Rebind("kb1", Text("_", <<"f1", "f2">>), None)
\* input="mo1_mouse1": the segment "_mouse1" is no mouse alias and no key
RebindUnparseable == Rebind("mo1", Text("_", <<"mouse1">>), None)
\* input="js1_f2": a device that is not routed
RebindJoystick == Rebind("js1", Text("_", <<"f2">>), None)

RebindEntries ==
    {RebindKeyboard, RebindUnbound, RebindMouse, RebindShort, RebindTwoMains,
     RebindUnparseable, RebindJoystick}

CustomAction(map, name, rebinds) == [map |-> map, name |-> name, rebinds |-> rebinds]

\* Action elements for m1.a1 with every sequence of rebinds.
RichActions ==
    {CustomAction(Some("m1"), Some("a1"), rs) : rs \in SeqsUpTo(RebindEntries, MaxRebinds)}

\* Action elements with one rebind, for present and absent maps and actions.
LightActions ==
    {CustomAction(Some("m1"), Some("a1"), <<RebindKeyboard>>),
     CustomAction(Some("m1"), Some("a2"), <<RebindKeyboard>>),
     CustomAction(Some("m1"), Some("a2"), <<RebindUnbound>>),
     CustomAction(Some("m9"), Some("a1"), <<RebindKeyboard>>),
     CustomAction(Some("m1"), Some("a9"), <<RebindKeyboard>>),
     CustomAction(Some("m1"), None, <<RebindKeyboard>>),
     CustomAction(None, Some("a1"), <<RebindKeyboard>>)}

CustomDoc(actions) == [readable |-> TRUE, actions |-> actions]

\* Custom documents of up to MaxCustomActions action elements.
CustomDocs ==
    {CustomDoc(as) : as \in UNION {[1..k -> LightActions] : k \in 1..MaxCustomActions}}
    \cup {UnreadableDoc}

\* Custom documents about m1.a1: one action element with up to MaxRebinds
\* rebinds, or two action elements that name it.
OverlayDocs ==
    {CustomDoc(<<a>>) : a \in RichActions}
    \cup {CustomDoc(<<CustomAction(Some("m1"), Some("a1"), <<RebindKeyboard>>),
                      CustomAction(Some("m1"), Some("a1"), <<RebindMouse>>)>>),
          CustomDoc(<<CustomAction(Some("m1"), Some("a1"), <<RebindMouse, RebindKeyboard>>),
                      CustomAction(Some("m1"), Some("a2"), <<RebindUnbound>>)>>)}
    \cup {UnreadableDoc}

----------------------------------------------------------------------------
(* The graph: one ActionBindings value and the operations on it.  op is    *)
(* "idle" between calls; a call records itself and its input in op and     *)
(* Return hands control back to the caller.                                *)

Graph == [action_maps |-> action_maps, activation |-> activation]

Idle(after_generate) == [kind |-> "idle", after_generate |-> after_generate]

Init ==
    /\ action_maps = ActionBindingsDefault.action_maps
    /\ activation = ActionBindingsDefault.activation
    /\ op = Idle(FALSE)
    /\ ret = None
    /\ loaded = None
    /\ EnvInit

\* A load that empties the graph before it reads the document.
LoadDefaultProfile_clearing(doc) ==
    /\ op.kind = "idle"
    /\ op' = [kind |-> "load_default_profile", doc |-> doc]
    /\ IF doc.readable
       THEN LET ab == load_default_profile(doc, SKIP_ACTION_MAPS, ACTION_MAP_UI_CATEGORIES) IN
            /\ action_maps' = ab.action_maps
            /\ activation' = ab.activation
            /\ loaded' = Some(doc.modes)
            /\ ret' = Some("Ok")
       ELSE /\ action_maps' = ActionBindingsDefault.action_maps
            /\ activation' = ActionBindingsDefault.activation
            /\ UNCHANGED loaded
            /\ ret' = Some("Err")
    /\ UNCHANGED env

LoadDefaultProfile(doc) ==
    /\ op.kind = "idle"
    /\ op' = [kind |-> "load_default_profile", doc |-> doc]
    /\ IF doc.readable
       THEN LET ab == load_default_profile(doc, SKIP_ACTION_MAPS, ACTION_MAP_UI_CATEGORIES) IN
            /\ action_maps' = ab.action_maps
            /\ activation' = ab.activation
            /\ loaded' = Some(doc.modes)
            /\ ret' = Some("Ok")
       ELSE /\ UNCHANGED <<action_maps, activation, loaded>>
            /\ ret' = Some("Err")
    /\ UNCHANGED env

ApplyCustomProfile(doc) ==
    /\ op.kind = "idle"
    /\ op' = [kind |-> "apply_custom_profile", doc |-> doc]
    /\ IF doc.readable
       THEN /\ action_maps' = apply_custom_profile(Graph, doc).action_maps
            /\ ret' = Some("Ok")
       ELSE /\ UNCHANGED action_maps
            /\ ret' = Some("Err")
    /\ UNCHANGED <<activation, loaded>>
    /\ UNCHANGED env

GenerateMissingBinds ==
    /\ op.kind = "idle"
    /\ op' = [kind |-> "generate_missing_binds", again |-> op.after_generate]
    /\ \E key_order \in Orders(CANDIDATE_KEYS) :
           action_maps' \in generate_missing_binds(Graph, key_order)
    /\ ret' = None
    /\ UNCHANGED <<activation, loaded>>
    /\ UNCHANGED env

SaveRestore ==
    /\ op.kind = "idle"
    /\ op' = [kind |-> "from_json"]
    /\ LET ab == from_json_of_to_json(Graph) IN
           /\ action_maps' = ab.action_maps
           /\ activation' = ab.activation
    /\ ret' = Some("Ok")
    /\ UNCHANGED loaded
    /\ UNCHANGED env

Return ==
    /\ op.kind \notin {"idle", "new"}
    /\ op' = Idle(op.kind = "generate_missing_binds")
    /\ ret' = None
    /\ UNCHANGED <<action_maps, activation, loaded>>
    /\ UNCHANGED env

Next ==
    \/ \E doc \in DefaultDocs : LoadDefaultProfile(doc)
    \/ \E doc \in CustomDocs : ApplyCustomProfile(doc)
    \/ GenerateMissingBinds
    \/ SaveRestore
    \/ Return

Spec == Init /\ [][Next]_vars

\* Loading and overlaying only, with the custom documents about one action.
NextOverlay ==
    \/ \E doc \in DefaultDocs : LoadDefaultProfile(doc)
    \/ \E doc \in OverlayDocs : ApplyCustomProfile(doc)
    \/ Return

SpecOverlay == Init /\ [][NextOverlay]_vars

----------------------------------------------------------------------------
(* Properties of the graph *)

MapIndexes(maps) == 1..Len(maps)
ActionIndexes(maps, mi) == 1..Len(maps[mi].actions)

ValidIdx(o, arena) == o = None \/ Unwrap(o) \in 0..(Len(arena.modes) - 1)

BindsValid(binds, arena) ==
    /\ \A i \in 1..Len(binds.keyboard) : ValidIdx(binds.keyboard[i].activation_mode_idx, arena)
    /\ \A i \in 1..Len(binds.mouse) : ValidIdx(binds.mouse[i].activation_mode_idx, arena)

\* C1: in every reachable state every activation-mode index stored in the
\* graph (activation_mode_idx of each bind of default_binds and custom_binds,
\* activation_mode of each action) is a position of the current arena.
IndexValidity ==
    \A mi \in MapIndexes(action_maps) : \A ai \in ActionIndexes(action_maps, mi) :
        LET a == action_maps[mi].actions[ai] IN
        /\ ValidIdx(a.activation_mode, activation)
        /\ BindsValid(a.default_binds, activation)
        /\ IsSome(a.custom_binds) => BindsValid(Unwrap(a.custom_binds), activation)

\* Every bind held in a custom_binds of the graph.
CustomBindsOf(maps) ==
    UNION {UNION {IF IsSome(maps[mi].actions[ai].custom_binds)
                  THEN SeqToSet(all_binds(Unwrap(maps[mi].actions[ai].custom_binds)))
                  ELSE {} : ai \in ActionIndexes(maps, mi)} : mi \in MapIndexes(maps)}

\* A restored graph of at least two modes that holds a rebind of the user and
\* a generated bind, each with an activation-mode index.
IndexValidityWitness ==
    /\ op.kind = "from_json"
    /\ Len(activation.modes) >= 2
    /\ \E b \in CustomBindsOf(action_maps) :
           b.origin = "User" /\ IsSome(b.activation_mode_idx)
    /\ \E b \in CustomBindsOf(action_maps) :
           b.origin = "Generated" /\ IsSome(b.activation_mode_idx)

\* The custom document has an action element for action act_name of map am_name.
Named(doc, am_name, act_name) ==
    /\ doc.readable
    /\ \E k \in 1..Len(doc.actions) :
           doc.actions[k].map = Some(am_name) /\ doc.actions[k].name = Some(act_name)

\* C5: apply_custom_profile changes nothing but the custom_binds of actions
\* that the document names and the graph has: the maps and their actions,
\* every default_binds, the arena, and the custom_binds of every action the
\* document does not name are as before; an action the graph does not have
\* adds nothing.
OverlayPrecision ==
    [][op'.kind = "apply_custom_profile" =>
        /\ activation' = activation
        /\ Len(action_maps') = Len(action_maps)
        /\ \A mi \in MapIndexes(action_maps) :
               /\ action_maps'[mi].name = action_maps[mi].name
               /\ action_maps'[mi].ui_category = action_maps[mi].ui_category
               /\ Len(action_maps'[mi].actions) = Len(action_maps[mi].actions)
               /\ \A ai \in ActionIndexes(action_maps, mi) :
                      LET a == action_maps[mi].actions[ai]
                          b == action_maps'[mi].actions[ai]
                      IN  /\ b.action_name = a.action_name
                          /\ b.default_binds = a.default_binds
                          /\ b.activation_mode = a.activation_mode
                          /\ ~Named(op'.doc, action_maps[mi].name, a.action_name)
                                 => b.custom_binds = a.custom_binds]_vars

\* An overlay that names an action of the graph and an action the graph does
\* not have has run on a graph in which an action it does not name holds a
\* generated bind.
OverlayPrecisionWitness ==
    /\ op.kind = "apply_custom_profile"
    /\ op.doc.readable
    /\ \E mi \in MapIndexes(action_maps) : \E ai \in ActionIndexes(action_maps, mi) :
           /\ Named(op.doc, action_maps[mi].name, action_maps[mi].actions[ai].action_name)
           /\ IsSome(action_maps[mi].actions[ai].custom_binds)
    /\ \E k \in 1..Len(op.doc.actions) :
           /\ IsSome(op.doc.actions[k].map) /\ IsSome(op.doc.actions[k].name)
           /\ ~\E mi \in MapIndexes(action_maps) : \E ai \in ActionIndexes(action_maps, mi) :
                  /\ Some(action_maps[mi].name) = op.doc.actions[k].map
                  /\ Some(action_maps[mi].actions[ai].action_name) = op.doc.actions[k].name
    /\ \E mi \in MapIndexes(action_maps) : \E ai \in ActionIndexes(action_maps, mi) :
           /\ ~Named(op.doc, action_maps[mi].name, action_maps[mi].actions[ai].action_name)
           /\ IsSome(action_maps[mi].actions[ai].custom_binds)
           /\ \E b \in SeqToSet(Unwrap(action_maps[mi].actions[ai].custom_binds).keyboard) :
                  b.origin = "Generated"

----------------------------------------------------------------------------
(* Properties of the overlay *)

\* A rebind entry that carries a device tag and whose remainder parses.
WellFormed(r) == ~r.short /\ Bind_from_string(r.rest, None).ok

Malformed(r) == ~WellFormed(r)

IsKeyboardEntry(r) == WellFormed(r) /\ r.tag = "kb1"

IsMouseEntry(r) == WellFormed(r) /\ r.tag = "mo1"

\* The bind a well-formed entry stands for: its parsed remainder with the
\* position its activationMode names in the arena.
EntryBind(r, arena) ==
    Bind_from_string(r.rest,
        IF IsSome(r.activationMode) /\ Unwrap(r.activationMode) \in DOMAIN arena.name_to_index
        THEN Some(arena.name_to_index[Unwrap(r.activationMode)])
        ELSE None).bind

\* The Binds built from the rebind entries of one action element.
BindsOfEntries(rebinds, arena) ==
    LET kb == SelectSeq(rebinds, IsKeyboardEntry)
        mo == SelectSeq(rebinds, IsMouseEntry)
    IN  [keyboard |-> [i \in 1..Len(kb) |-> EntryBind(kb[i], arena)],
         mouse |-> [i \in 1..Len(mo) |-> EntryBind(mo[i], arena)]]

\* The last action element of the document for an action it names.
LastNaming(doc, am_name, act_name) ==
    CHOOSE k \in 1..Len(doc.actions) :
        /\ doc.actions[k].map = Some(am_name) /\ doc.actions[k].name = Some(act_name)
        /\ \A j \in (k + 1)..Len(doc.actions) :
               ~(doc.actions[j].map = Some(am_name) /\ doc.actions[j].name = Some(act_name))

\* C6: after apply_custom_profile, custom_binds of each action the document
\* names and the graph has is exactly the Binds built from the rebind entries
\* of its action element (the last one, when several name it): the keyboard
\* list is its well-formed keyboard entries in document order, the mouse list
\* its well-formed mouse entries in document order, and nothing else; applying
\* the same document again changes nothing.
OverlayReplaces ==
    [][op'.kind = "apply_custom_profile" /\ op'.doc.readable =>
        /\ \A mi \in MapIndexes(action_maps) : \A ai \in ActionIndexes(action_maps, mi) :
               LET am_name == action_maps[mi].name
                   act_name == action_maps[mi].actions[ai].action_name
               IN  Named(op'.doc, am_name, act_name) =>
                       action_maps'[mi].actions[ai].custom_binds =
                           Some(BindsOfEntries(
                                    op'.doc.actions[LastNaming(op'.doc, am_name, act_name)].rebinds,
                                    activation))
        /\ apply_custom_profile([action_maps |-> action_maps', activation |-> activation'],
                                op'.doc).action_maps = action_maps']_vars

\* The document names an action twice, first with a keyboard rebind and then
\* with a mouse rebind: its custom_binds hold the mouse bind alone.
OverlayReplacesWitness ==
    /\ op.kind = "apply_custom_profile"
    /\ op.doc.readable
    /\ Len(op.doc.actions) = 2
    /\ \E mi \in MapIndexes(action_maps) : \E ai \in ActionIndexes(action_maps, mi) :
           /\ op.doc.actions[1].map = Some(action_maps[mi].name)
           /\ op.doc.actions[1].name = Some(action_maps[mi].actions[ai].action_name)
           /\ op.doc.actions[2].map = op.doc.actions[1].map
           /\ op.doc.actions[2].name = op.doc.actions[1].name
           /\ \E j \in 1..Len(op.doc.actions[1].rebinds) :
                  IsKeyboardEntry(op.doc.actions[1].rebinds[j])
           /\ IsSome(action_maps[mi].actions[ai].custom_binds)
           /\ Unwrap(action_maps[mi].actions[ai].custom_binds).keyboard = << >>
           /\ Len(Unwrap(action_maps[mi].actions[ai].custom_binds).mouse) = 1

\* How many of the first j rebind entries satisfy the test.
CountUpTo(rebinds, j, Test(_)) == Cardinality({x \in 1..j : Test(rebinds[x])})

\* C7: apply_custom_profile skips a malformed rebind entry (input too short
\* for a device tag, a token that does not parse, more than one main key) on
\* its own: the call returns success and every well-formed keyboard or mouse
\* entry of the same action element, before or after the bad one, is in the
\* action's custom_binds.
MalformedSkipped ==
    [][op'.kind = "apply_custom_profile" /\ op'.doc.readable =>
        /\ ret' = Some("Ok")
        /\ \A mi \in MapIndexes(action_maps) : \A ai \in ActionIndexes(action_maps, mi) :
               LET am_name == action_maps[mi].name
                   act_name == action_maps[mi].actions[ai].action_name
               IN  Named(op'.doc, am_name, act_name) =>
                   LET rs == op'.doc.actions[LastNaming(op'.doc, am_name, act_name)].rebinds
                       cb == action_maps'[mi].actions[ai].custom_binds
                   IN  (\E j \in 1..Len(rs) : Malformed(rs[j])) =>
                       /\ IsSome(cb)
                       /\ \A j \in 1..Len(rs) :
                              /\ IsKeyboardEntry(rs[j]) =>
                                     LET n == CountUpTo(rs, j, IsKeyboardEntry) IN
                                     /\ n <= Len(Unwrap(cb).keyboard)
                                     /\ Unwrap(cb).keyboard[n] = EntryBind(rs[j], activation)
                              /\ IsMouseEntry(rs[j]) =>
                                     LET n == CountUpTo(rs, j, IsMouseEntry) IN
                                     /\ n <= Len(Unwrap(cb).mouse)
                                     /\ Unwrap(cb).mouse[n] = EntryBind(rs[j], activation)]_vars

\* An action element whose first rebind is malformed and whose second is
\* well-formed has been applied: the action holds the bind of the second.
MalformedSkippedWitness ==
    /\ op.kind = "apply_custom_profile"
    /\ op.doc.readable
    /\ ret = Some("Ok")
    /\ Len(op.doc.actions) = 1
    /\ Len(op.doc.actions[1].rebinds) = 2
    /\ Malformed(op.doc.actions[1].rebinds[1])
    /\ ~op.doc.actions[1].rebinds[1].short
    /\ IsKeyboardEntry(op.doc.actions[1].rebinds[2])
    /\ \E mi \in MapIndexes(action_maps) : \E ai \in ActionIndexes(action_maps, mi) :
           /\ Named(op.doc, action_maps[mi].name, action_maps[mi].actions[ai].action_name)
           /\ action_maps[mi].actions[ai].custom_binds =
                  Some([keyboard |-> <<EntryBind(op.doc.actions[1].rebinds[2], activation)>>,
                        mouse |-> << >>])

\* The default document defines the name with an ActivationMode element.
Defined(ms, n) == \E i \in 1..Len(ms) : ms[i].name = Some(n)

\* The first ActivationMode element of the default document with the name.
FirstDefinition(ms, n) ==
    ms[CHOOSE i \in 1..Len(ms) :
           /\ ms[i].name = Some(n)
           /\ \A j \in 1..(i - 1) : ms[j].name # Some(n)]

\* The mode index a bind built from a rebind entry must carry: some position,
\* whose mode has the quantized timings of the definition of the name.
ResolvesTo(b, arena, definition) ==
    /\ IsSome(b.activation_mode_idx)
    /\ Unwrap(b.activation_mode_idx) < Len(arena.modes)
    /\ ModeKey(arena.modes[Unwrap(b.activation_mode_idx) + 1]) =
           ModeKey(ActivationMode_from_node(definition, TRUE))

\* C8: after load_default_profile and then apply_custom_profile, the bind of
\* a rebind entry whose activationMode names a mode that a named ActivationMode
\* element of the default document defines carries an activation index, and
\* the mode there has the quantized timings of the first element that defined
\* the name; also for a definition whose timings equal those of an earlier
\* definition under another name.
NamedModeResolves ==
    [][op'.kind = "apply_custom_profile" /\ op'.doc.readable /\ IsSome(loaded) =>
        \A mi \in MapIndexes(action_maps) : \A ai \in ActionIndexes(action_maps, mi) :
            LET am_name == action_maps[mi].name
                act_name == action_maps[mi].actions[ai].action_name
            IN  Named(op'.doc, am_name, act_name) =>
                LET rs == op'.doc.actions[LastNaming(op'.doc, am_name, act_name)].rebinds
                    cb == Unwrap(action_maps'[mi].actions[ai].custom_binds)
                IN  \A j \in 1..Len(rs) :
                        IsSome(rs[j].activationMode)
                        /\ Defined(Unwrap(loaded), Unwrap(rs[j].activationMode)) =>
                            LET definition ==
                                    FirstDefinition(Unwrap(loaded), Unwrap(rs[j].activationMode))
                            IN  /\ IsKeyboardEntry(rs[j]) =>
                                       ResolvesTo(cb.keyboard[CountUpTo(rs, j, IsKeyboardEntry)],
                                                  activation', definition)
                                /\ IsMouseEntry(rs[j]) =>
                                       ResolvesTo(cb.mouse[CountUpTo(rs, j, IsMouseEntry)],
                                                  activation', definition)]_vars

----------------------------------------------------------------------------
(* Properties of the generator *)

\* Some bind of the lists is not the unbound placeholder.
SomeBound(binds) ==
    \E b \in SeqToSet(binds.keyboard) \cup SeqToSet(binds.mouse) : ~b.is_unbound

\* The action has an active bind, default or custom.
HasActiveBind(a) ==
    SomeBound(a.default_binds) \/ (IsSome(a.custom_binds) /\ SomeBound(Unwrap(a.custom_binds)))

\* C9: generate_missing_binds writes nothing but custom_binds, and only on
\* actions with no active default bind and no active custom bind before the
\* call: default_binds of every action and both fields of every action with
\* an active bind are unchanged, and an action that is filled holds exactly
\* one keyboard bind and no mouse bind.
GeneratorFrame ==
    [][op'.kind = "generate_missing_binds" =>
        /\ activation' = activation
        /\ Len(action_maps') = Len(action_maps)
        /\ \A mi \in MapIndexes(action_maps) :
               /\ action_maps'[mi].name = action_maps[mi].name
               /\ action_maps'[mi].ui_category = action_maps[mi].ui_category
               /\ Len(action_maps'[mi].actions) = Len(action_maps[mi].actions)
               /\ \A ai \in ActionIndexes(action_maps, mi) :
                      LET a == action_maps[mi].actions[ai]
                          b == action_maps'[mi].actions[ai]
                      IN  /\ b.action_name = a.action_name
                          /\ b.activation_mode = a.activation_mode
                          /\ b.default_binds = a.default_binds
                          /\ HasActiveBind(a) => b.custom_binds = a.custom_binds
                          /\ b.custom_binds # a.custom_binds =>
                                 /\ IsSome(b.custom_binds)
                                 /\ Len(Unwrap(b.custom_binds).keyboard) = 1
                                 /\ Len(Unwrap(b.custom_binds).mouse) = 0
                                 /\ ~Unwrap(b.custom_binds).keyboard[1].is_unbound]_vars

\* The generator has run on a graph with an action bound by default only, an
\* action bound by a rebind of the user, and an action it has filled.
GeneratorFrameWitness ==
    /\ op.kind = "generate_missing_binds"
    /\ \E mi \in MapIndexes(action_maps) : \E ai \in ActionIndexes(action_maps, mi) :
           /\ SomeBound(action_maps[mi].actions[ai].default_binds)
           /\ action_maps[mi].actions[ai].custom_binds = None
    /\ \E mi \in MapIndexes(action_maps) : \E ai \in ActionIndexes(action_maps, mi) :
           /\ ~SomeBound(action_maps[mi].actions[ai].default_binds)
           /\ IsSome(action_maps[mi].actions[ai].custom_binds)
           /\ \E b \in SeqToSet(Unwrap(action_maps[mi].actions[ai].custom_binds).keyboard) :
                  b.origin = "User" /\ ~b.is_unbound
    /\ \E mi \in MapIndexes(action_maps) : \E ai \in ActionIndexes(action_maps, mi) :
           /\ IsSome(action_maps[mi].actions[ai].custom_binds)
           /\ Len(Unwrap(action_maps[mi].actions[ai].custom_binds).keyboard) = 1
           /\ Unwrap(action_maps[mi].actions[ai].custom_binds).keyboard[1].origin = "Generated"

\* C10: generate_missing_binds run again on the graph a run has produced, with
\* nothing done in between, leaves the graph as it is, the actions the first
\* run could not fill included.
GeneratorIdempotent ==
    [][op'.kind = "generate_missing_binds" /\ op'.again =>
        action_maps' = action_maps /\ activation' = activation]_vars

\* A second run in a row has ended on a graph with a generated bind and an
\* action that no run could fill.
GeneratorIdempotentWitness ==
    /\ op.kind = "generate_missing_binds"
    /\ op.again
    /\ \E b \in CustomBindsOf(action_maps) : b.origin = "Generated"
    /\ \E mi \in MapIndexes(action_maps) : \E ai \in ActionIndexes(action_maps, mi) :
           ~HasActiveBind(action_maps[mi].actions[ai])

----------------------------------------------------------------------------
(* Properties of the binds the generator picks *)

\* The positions <<map, action>> of the actions of the graph.
ActionPositions(maps) ==
    UNION {{<<mi, ai>> : ai \in ActionIndexes(maps, mi)} : mi \in MapIndexes(maps)}

ActionAt(maps, p) == maps[p[1]].actions[p[2]]

CategoryAt(maps, p) ==
    IF IsSome(maps[p[1]].ui_category) THEN Unwrap(maps[p[1]].ui_category)
    ELSE "@ui_CGUIGeneral"

\* Two categories are in the same category group when they are one category
\* or one of the listed groups holds both.
SameGroup(c1, c2) ==
    c1 = c2 \/ \E g \in {{"@ui_CCSpaceFlight", "@ui_CGUIGeneral"},
                         {"@ui_CCFPS", "@ui_CGUIGeneral"}} : c1 \in g /\ c2 \in g

\* The (main, modifiers) pairs of the binds of an action, default and custom.
PairsOf(a) ==
    {<<b.main, b.modifiers>> :
        b \in SeqToSet(a.default_binds.keyboard) \cup SeqToSet(a.default_binds.mouse)
              \cup (IF IsSome(a.custom_binds)
                    THEN SeqToSet(Unwrap(a.custom_binds).keyboard)
                         \cup SeqToSet(Unwrap(a.custom_binds).mouse)
                    ELSE {})}

\* The pairs of its active binds: those that are not the unbound placeholder.
ActivePairsOf(a) == PairsOf(a) \ {<<None, {}>>}

\* The actions the step has given a new custom_binds.
FilledBy(before, after) ==
    {p \in ActionPositions(before) :
        ActionAt(after, p).custom_binds # ActionAt(before, p).custom_binds}

\* The pair of the bind a filled action holds.
FilledPair(maps, p) ==
    <<Unwrap(ActionAt(maps, p).custom_binds).keyboard[1].main,
      Unwrap(ActionAt(maps, p).custom_binds).keyboard[1].modifiers>>

\* C11 as stated: after generate_missing_binds no two actions of the same
\* category group share a (main, modifiers) pair among their active binds.
CollisionFree ==
    op.kind = "generate_missing_binds" =>
        \A p, q \in ActionPositions(action_maps) :
            p # q /\ SameGroup(CategoryAt(action_maps, p), CategoryAt(action_maps, q)) =>
                ActivePairsOf(ActionAt(action_maps, p))
                    \cap ActivePairsOf(ActionAt(action_maps, q)) = {}

\* C11 amended: the pair of a bind that generate_missing_binds has written is
\* the pair of no bind of another action of the same category group, be that
\* bind a default, a rebind of the user or another generated bind.
GeneratedCollisionFree ==
    [][op'.kind = "generate_missing_binds" =>
        \A p \in FilledBy(action_maps, action_maps') :
            \A q \in ActionPositions(action_maps') \ {p} :
                SameGroup(CategoryAt(action_maps', p), CategoryAt(action_maps', q)) =>
                    FilledPair(action_maps', p) \notin PairsOf(ActionAt(action_maps', q))]_vars

\* A run has filled two actions of one category group next to an action that
\* holds a rebind of the user.
GeneratedCollisionFreeWitness ==
    /\ op.kind = "generate_missing_binds"
    /\ ~op.again
    /\ \E p, q \in ActionPositions(action_maps) :
           /\ p # q
           /\ SameGroup(CategoryAt(action_maps, p), CategoryAt(action_maps, q))
           /\ IsSome(ActionAt(action_maps, p).custom_binds)
           /\ IsSome(ActionAt(action_maps, q).custom_binds)
           /\ Unwrap(ActionAt(action_maps, p).custom_binds).keyboard # << >>
           /\ Unwrap(ActionAt(action_maps, q).custom_binds).keyboard # << >>
           /\ Unwrap(ActionAt(action_maps, p).custom_binds).keyboard[1].origin = "Generated"
           /\ Unwrap(ActionAt(action_maps, q).custom_binds).keyboard[1].origin = "Generated"
    /\ \E b \in CustomBindsOf(action_maps) : b.origin = "User" /\ ~b.is_unbound

\* The (main, modifiers) pairs of the ban-list.
BannedPairs == {<<b.main, b.modifiers>> : b \in DENY_COMBOS}

\* C12: no bind written by generate_missing_binds has the (main, modifiers)
\* pair of an entry of the ban-list, whatever activation index and origin the
\* entry and the generated bind carry.
GeneratedNotBanned ==
    [][op'.kind = "generate_missing_binds" =>
        \A p \in FilledBy(action_maps, action_maps') :
            FilledPair(action_maps', p) \notin BannedPairs]_vars

\* A run has filled an action of a category that may use lalt, from a pool
\* that holds f1, while no action holds lalt+f1: the banned pair was a
\* candidate nothing but the ban-list kept back.  The bind written is
\* lalt+ralt+f1 with the activation index of "press", which the ban-list
\* entry does not carry.
GeneratedNotBannedWitness ==
    /\ op.kind = "generate_missing_binds"
    /\ <<Some(BindMain("Key", "f1")), {"lalt"}>> \in BannedPairs
    /\ \E p \in ActionPositions(action_maps) :
           /\ CategoryAt(action_maps, p) = "@ui_CCSpaceFlight"
           /\ IsSome(ActionAt(action_maps, p).custom_binds)
           /\ Unwrap(ActionAt(action_maps, p).custom_binds).keyboard # << >>
           /\ Unwrap(ActionAt(action_maps, p).custom_binds).keyboard[1].origin = "Generated"
           /\ IsSome(Unwrap(ActionAt(action_maps, p).custom_binds).keyboard[1].activation_mode_idx)
           /\ FilledPair(action_maps, p) = <<Some(BindMain("Key", "f1")), {"lalt", "ralt"}>>
    /\ \A q \in ActionPositions(action_maps) :
           <<Some(BindMain("Key", "f1")), {"lalt"}>> \notin PairsOf(ActionAt(action_maps, q))

\* The modifiers the table forbids for one category.
ForbiddenFor(c) ==
    IF c \in DOMAIN DISSALOWED_MODIFIERS_PER_CATEGORY
    THEN DISSALOWED_MODIFIERS_PER_CATEGORY[c] ELSE {}

\* The categories that share a listed group with c, c included.
GroupCategories(c) == {c} \cup UNION {g \in raw_groups : c \in g}

\* The modifiers forbidden for some category that shares a group with c.
ForbiddenInGroup(c) == UNION {ForbiddenFor(d) : d \in GroupCategories(c)}

\* The binds the generator counts as used for category c are those of the
\* actions whose category shares a category with the group of c.
SharesBucket(c1, c2) == GroupCategories(c1) \cap GroupCategories(c2) # {}

\* No key of the pool with at most two modifiers out of mods is left for the
\* action at p: each combination is banned or held by an action whose binds
\* count as used for it.
NothingLeft(maps, p, mods) ==
    \A k \in CANDIDATE_KEYS : \A ms \in SUBSET mods :
        Cardinality(ms) <= 2 =>
            \/ <<Some(BindMain("Key", k)), ms>> \in BannedPairs
            \/ \E q \in ActionPositions(maps) :
                   /\ SharesBucket(CategoryAt(maps, p), CategoryAt(maps, q))
                   /\ <<Some(BindMain("Key", k)), ms>> \in PairsOf(ActionAt(maps, q))

ExhaustionNotFatal ==
    [][op'.kind = "generate_missing_binds" =>
        \A p \in ActionPositions(action_maps) :
            ~HasActiveBind(ActionAt(action_maps, p)) =>
                \/ /\ ActionAt(action_maps', p).custom_binds = ActionAt(action_maps, p).custom_binds
                   /\ NothingLeft(action_maps', p,
                          GENERATOR_MODIFIERS \ ForbiddenInGroup(CategoryAt(action_maps, p)))
                \/ /\ p \in FilledBy(action_maps, action_maps')
                   /\ HasActiveBind(ActionAt(action_maps', p))]_vars

\* A first run has ended with an action left without a bind and an action
\* that comes later in the graph filled.
ExhaustionNotFatalWitness ==
    /\ op.kind = "generate_missing_binds"
    /\ ~op.again
    /\ \E p, q \in ActionPositions(action_maps) :
           /\ p[1] < q[1]
           /\ ~HasActiveBind(ActionAt(action_maps, p))
           /\ IsSome(ActionAt(action_maps, q).custom_binds)
           /\ Unwrap(ActionAt(action_maps, q).custom_binds).keyboard # << >>
           /\ Unwrap(ActionAt(action_maps, q).custom_binds).keyboard[1].origin = "Generated"

----------------------------------------------------------------------------
(* The bind parser and the token builder on their own: an input text is    *)
(* parsed with the index the caller passes, and a bind that has a token   *)
(* is rendered and parsed again.                                           *)

ParsePrefixes == {"", "kb1_", "_"}

ParseWords ==
    {"f1", "F1", "a", "lalt", "LAlt", "lctrl", "lshift", "mouse2", "mouse6",
     "mwheel_up", "maxis_x", "hmd_pitch", "bogus"}

\* The blank input and every prefix followed by up to MaxSegments segments.
ParseTexts ==
    {BlankText}
    \cup {Text(p, ws) : p \in ParsePrefixes, ws \in SeqsUpTo(ParseWords, MaxSegments)}

\* The activation indexes a caller passes: none, or a position of the arena.
ParseIndexes == {None, Some(0), Some(1)}

InitParse ==
    /\ action_maps = ActionBindingsDefault.action_maps
    /\ activation = ActionBindingsDefault.activation
    /\ op \in {[kind |-> "input", input |-> t, idx |-> ix] :
                  t \in ParseTexts, ix \in ParseIndexes}
    /\ ret = None
    /\ loaded = None
    /\ EnvInit

\* Bind::from_string(input, activation_mode_idx)
FromString ==
    /\ op.kind = "input"
    /\ op' = [kind |-> "from_string", input |-> op.input, idx |-> op.idx]
    /\ ret' = Bind_from_string(op.input, op.idx)
    /\ UNCHANGED <<action_maps, activation, loaded>>
    /\ UNCHANGED env

\* bind_to_token_no_prefix on the bind just parsed, and from_string on the
\* token it gives.
RenderAndParse ==
    /\ op.kind = "from_string"
    /\ ret.ok
    /\ IsSome(bind_to_token_no_prefix(ret.bind.main, ret.bind.modifiers))
    /\ LET token == Unwrap(bind_to_token_no_prefix(ret.bind.main, ret.bind.modifiers)) IN
           /\ op' = [kind |-> "round_trip", input |-> op.input,
                     first |-> ret.bind, token |-> token]
           /\ ret' = Bind_from_string(token, None)
    /\ UNCHANGED <<action_maps, activation, loaded>>
    /\ UNCHANGED env

NextParse ==
    \/ FromString
    \/ RenderAndParse

SpecParse == InitParse /\ [][NextParse]_vars

\* C18: a bind parsed from a token string, rendered with the token builder
\* of the emitter and parsed again, is equal to the first in main and
\* modifiers.
BindRoundTrip ==
    op.kind = "round_trip" =>
        /\ ret.ok
        /\ ret.bind.main = op.first.main
        /\ ret.bind.modifiers = op.first.modifiers

\* The segments of an input text as <<lead, word in lower case>>: the lead
\* goes with the first word, and a lead with no word is a segment of its own.
SegmentsOf(t) ==
    IF t.blank THEN << >>
    ELSE IF t.words = << >>
    THEN (IF t.prefix \in PREFIXES \/ t.prefix = "" THEN << >> ELSE <<<<t.prefix, "">>>>)
    ELSE [i \in 1..Len(t.words) |->
             <<IF i = 1 /\ t.prefix \notin PREFIXES THEN t.prefix ELSE "",
               IF t.words[i] = "F1" THEN "f1"
               ELSE IF t.words[i] = "LAlt" THEN "lalt" ELSE t.words[i]>>]

\* A segment that names a modifier key.
IsModifierSegment(sg) ==
    sg[1] \in {"", "_"} /\ sg[2] \in {"lshift", "rshift", "lctrl", "rctrl", "lalt", "ralt"}

\* A segment that is a main candidate: a wheel, axis or head-tracking token,
\* a mouse button, or a key that is no modifier.
IsMainSegment(sg) ==
    \/ sg[1] = "" /\ sg[2] \in WheelUpTokens \cup WheelDownTokens
                              \cup DOMAIN MouseAxisTokens \cup DOMAIN HmdTokens
                              \cup DOMAIN mouse_alias_table
    \/ sg[1] \in {"", "_"} /\ sg[2] \in {"f1", "f2", "f3", "a"}

HasUnknownSegment(t) ==
    \E i \in 1..Len(SegmentsOf(t)) :
        ~IsModifierSegment(SegmentsOf(t)[i]) /\ ~IsMainSegment(SegmentsOf(t)[i])

MainCandidates(t) ==
    Cardinality({i \in 1..Len(SegmentsOf(t)) : IsMainSegment(SegmentsOf(t)[i])})

ModifiersNamed(t) ==
    {SegmentsOf(t)[i][2] : i \in {j \in 1..Len(SegmentsOf(t)) : IsModifierSegment(SegmentsOf(t)[j])}}

\* C20 as stated: from_string fails only when the input has two or more main
\* candidates or a segment of no recognised kind; blank input gives the
\* unbound bind and every other input gives a bind.
ParseFailsOnlyAsListed ==
    op.kind = "from_string" =>
        /\ ret.ok <=> ~(MainCandidates(op.input) >= 2 \/ HasUnknownSegment(op.input))
        /\ op.input.blank => ret.bind.is_unbound /\ ret.bind.main = None

\* C20 amended: from_string fails in three cases: a segment of no recognised
\* kind, two or more main candidates, or no main candidate together with a
\* number of modifiers other than one (no segment at all after the device
\* prefix, or two or more modifiers).  Blank input gives the unbound bind and
\* every other input gives a bind.
ParseFailsExactly ==
    op.kind = "from_string" =>
        /\ ret.ok <=>
               \/ op.input.blank
               \/ /\ ~HasUnknownSegment(op.input)
                  /\ \/ MainCandidates(op.input) = 1
                     \/ /\ MainCandidates(op.input) = 0
                        /\ Cardinality(ModifiersNamed(op.input)) = 1
        /\ op.input.blank => ret.bind.is_unbound /\ ret.bind.main = None

\* from_string has refused "lctrl+lalt": recognised segments only, no main
\* candidate, two modifiers.
ParseFailsExactlyWitness ==
    /\ op.kind = "from_string"
    /\ op.input = Text("", <<"lctrl", "lalt">>)
    /\ ~HasUnknownSegment(op.input)
    /\ MainCandidates(op.input) = 0
    /\ ~ret.ok

----------------------------------------------------------------------------
(* generate_mappings_xml.rs: ActionBindings::generate_mapping_xml.  The    *)
(* file at the output path is the sequence of the markup events written to *)
(* it; an event carries its tag and the attributes name (name, profileName *)
(* or label), device, activationMode and input (input or instance).        *)

XmlEvent(tag, name, device, activationMode, input) ==
    [tag |-> tag, name |-> name, device |-> device,
     activationMode |-> activationMode, input |-> input]

Plain(tag) == XmlEvent(tag, None, None, None, None)

default_devices == <<<<"keyboard", "1">>, <<"mouse", "1">>>>

\* dev_list.iter().find(|(t, _)| *t == dev_type).map(|(_, i)| *i).unwrap_or("1")
DeviceInstance(dev_list, dev_type) ==
    IF \E i \in 1..Len(dev_list) : dev_list[i][1] = dev_type
    THEN dev_list[CHOOSE i \in 1..Len(dev_list) :
                      /\ dev_list[i][1] = dev_type
                      /\ \A j \in 1..(i - 1) : dev_list[j][1] # dev_type][2]
    ELSE "1"

\* The declaration, the root start tag, the header with its device list and
\* the empty modifiers element.
HeaderEvents(dev_list, profile_name) ==
    <<Plain("?xml"),
      XmlEvent("ActionMaps", Some(profile_name), None, None, None),
      XmlEvent("CustomisationUIHeader", Some(profile_name), None, None, None),
      Plain("devices")>>
    \o [i \in 1..Len(dev_list) |->
            XmlEvent(dev_list[i][1], None, None, None, Some(dev_list[i][2]))]
    \o <<Plain("/devices"), Plain("/CustomisationUIHeader"), Plain("modifiers")>>

\* The activationMode attribute of a rebind, decided by the activation index
\* of the bind.
rebind_activation_mode_by_index(bind) ==
    IF IsSome(bind.activation_mode_idx) THEN Some("press") ELSE None

\* The activationMode attribute of a rebind: "press" on a generated bind,
\* none otherwise.
rebind_activation_mode(bind) ==
    IF bind.origin = "Generated" THEN Some("press") ELSE None

\* The rebind elements of one device list, from bind i on: one for each bind
\* that has an input string.
RECURSIVE RebindEvents(_, _, _, _, _)
RebindEvents(binds, i, device, kb_inst, mo_inst) ==
    IF i > Len(binds) THEN << >>
    ELSE (IF IsSome(bind_to_input_with_prefix(binds[i].main, binds[i].modifiers,
                                              kb_inst, mo_inst))
          THEN <<XmlEvent("rebind", None, Some(device), rebind_activation_mode(binds[i]),
                          bind_to_input_with_prefix(binds[i].main, binds[i].modifiers,
                                                    kb_inst, mo_inst))>>
          ELSE << >>)
         \o RebindEvents(binds, i + 1, device, kb_inst, mo_inst)

\* The filter with the test of activity left out.
is_custom_action_any_custom(binding) == IsSome(binding.custom_binds)

\* The filter of custom_actions: custom_binds is present and has an active bind.
is_custom_action(binding) ==
    IsSome(binding.custom_binds) /\ has_active_binds(Unwrap(binding.custom_binds))

custom_actions(action_map) == SelectSeq(action_map.actions, is_custom_action)

\* The action elements of a map, from custom action i on.
RECURSIVE ActionEvents(_, _, _, _)
ActionEvents(actions, i, kb_inst, mo_inst) ==
    IF i > Len(actions) THEN << >>
    ELSE <<XmlEvent("action", Some(actions[i].action_name), None, None, None)>>
         \o RebindEvents(Unwrap(actions[i].custom_binds).keyboard, 1, "keyboard",
                         kb_inst, mo_inst)
         \o RebindEvents(Unwrap(actions[i].custom_binds).mouse, 1, "mouse",
                         kb_inst, mo_inst)
         \o <<Plain("/action")>>
         \o ActionEvents(actions, i + 1, kb_inst, mo_inst)

\* The actionmap elements, from map i on: a map with no custom action is
\* passed over.
RECURSIVE ActionMapEvents(_, _, _, _)
ActionMapEvents(maps, i, kb_inst, mo_inst) ==
    IF i > Len(maps) THEN << >>
    ELSE (IF custom_actions(maps[i]) = << >> THEN << >>
          ELSE <<XmlEvent("actionmap", Some(maps[i].name), None, None, None)>>
               \o ActionEvents(custom_actions(maps[i]), 1, kb_inst, mo_inst)
               \o <<Plain("/actionmap")>>)
         \o ActionMapEvents(maps, i + 1, kb_inst, mo_inst)

\* The events of a run in which every write succeeds.
MappingEvents(ab, devices, profile_name) ==
    LET Body(dev_list) ==
            HeaderEvents(dev_list, profile_name)
            \o ActionMapEvents(ab.action_maps, 1,
                               DeviceInstance(dev_list, "keyboard"),
                               DeviceInstance(dev_list, "mouse"))
            \o <<Plain("/ActionMaps")>>
    IN  Body(IF IsSome(devices) THEN Unwrap(devices) ELSE default_devices)

\* generate_mapping_xml on a path that holds `previous`: the results and file
\* contents the run may end with.  File::create fails and leaves the path
\* alone, or truncates the file; then a write_event fails and `?` returns with
\* the events flushed so far on disk, or every event reaches the buffer and Ok
\* is returned, the buffer being flushed when the writer is dropped, where a
\* failure is not reported.
generate_mapping_xml(ab, previous, devices, profile_name) ==
    LET Outcomes(doc) ==
            {[ret |-> "Err", output |-> previous]}
            \cup {[ret |-> "Err", output |-> Some(SubSeq(doc, 1, k))] : k \in 0..(Len(doc) - 1)}
            \cup {[ret |-> "Ok", output |-> Some(SubSeq(doc, 1, k))] : k \in 0..(Len(doc) - 1)}
            \cup {[ret |-> "Ok", output |-> Some(doc)]}
    IN  Outcomes(MappingEvents(ab, devices, profile_name))

\* The device lists and profile names given to the emitter.
EmitDevices == {None}
EmitProfileNames == {"SC-Mapper"}

\* A map whose actions have a wheel bind, an axis bind and a head-tracking
\* bind below a modifier, and no other bind; a3 has no bind at all.
WheelMaps ==
    <<MapNode(Some("m5"), None,
        <<ActionNode(Some("a1"), None, None, Some(Text("", <<"mwheel_up">>)), None, << >>),
          ActionNode(Some("a2"), None, None, None, Some(Text("", <<"maxis_x">>)), << >>),
          ActionNode(Some("a3"), None, None, None, None, << >>),
          ActionNode(Some("a4"), None, None, None, None,
              <<DeviceNode("keyboard", Some(Text("", <<"lalt", "hmd_pitch">>)),
                           None, None, << >>)>>)>>)>>

\* Default documents with no activation mode and with "press" and "hold",
\* and a document of wheel, axis and head-tracking binds.
EmitDefaultDocs ==
    {[readable |-> TRUE, modes |-> ms, maps |-> DefaultMaps] :
        ms \in {<< >>, <<ModeNode(Some("press"), PressAttrs),
                         ModeNode(Some("hold"), HoldAttrs(4))>>}}
    \cup {[readable |-> TRUE, modes |-> <<ModeNode(Some("hold"), HoldAttrs(4))>>,
           maps |-> WheelMaps]}

\* input="mo1_f2": a key under the mouse device tag
RebindKeyUnderMouse == Rebind("mo1", Text("_", <<"f2">>), None)

\* A custom document with an explicit unbind, a keyboard and a mouse rebind,
\* and a rebind of a key under the mouse device tag.
EmitCustomDocs ==
    {CustomDoc(<<CustomAction(Some("m1"), Some("a2"), <<RebindUnbound>>),
                 CustomAction(Some("m2"), Some("a1"),
                              <<RebindKeyboard, RebindMouse, RebindKeyUnderMouse>>)>>)}

GenerateMappingXml(devices, profile_name) ==
    /\ op.kind = "idle"
    /\ op' = [kind |-> "generate_mapping_xml", devices |-> devices,
              profile_name |-> profile_name, before |-> output]
    /\ \E r \in generate_mapping_xml(Graph, output, devices, profile_name) :
           /\ ret' = Some(r.ret)
           /\ output' = r.output
    /\ UNCHANGED <<action_maps, activation, loaded, heap, inner, held, pending, exec, button>>

NextEmit ==
    \/ \E doc \in EmitDefaultDocs : LoadDefaultProfile(doc)
    \/ \E doc \in EmitCustomDocs : ApplyCustomProfile(doc)
    \/ GenerateMissingBinds
    \/ \E devices \in EmitDevices, profile_name \in EmitProfileNames :
           GenerateMappingXml(devices, profile_name)
    \/ Return

SpecEmit == Init /\ [][NextEmit]_vars

----------------------------------------------------------------------------
(* Properties of the emitted document *)

\* The events of the file at the output path.
FileEvents == IF IsSome(output) THEN Unwrap(output) ELSE << >>

\* The name on the last start tag `tag` at or before event i.
EnclosingName(ev, tag, i) ==
    ev[CHOOSE j \in 1..i : ev[j].tag = tag /\ \A k \in (j + 1)..i : ev[k].tag # tag].name

\* The action has a custom bind that is not the unbound placeholder.
HasActiveCustom(a) == IsSome(a.custom_binds) /\ SomeBound(Unwrap(a.custom_binds))

\* The positions of the actions of the graph with these map and action names.
PositionsNamed(maps, map_name, action_name) ==
    {p \in ActionPositions(maps) :
        /\ Some(maps[p[1]].name) = map_name
        /\ Some(ActionAt(maps, p).action_name) = action_name}

\* The rebind elements that follow the action start tag at event i.
RebindsAfter(ev, i) ==
    LET Run(n) == \A k \in 1..n : i + k <= Len(ev) /\ ev[i + k].tag = "rebind"
        Longest(S) == CHOOSE n \in S : \A m \in S : m <= n
    IN  [k \in 1..Longest({n \in 0..Len(ev) : Run(n)}) |-> ev[i + k]]

\* The device and activationMode attributes the rebinds of an action are to
\* carry: one rebind for each custom bind with a main, keyboard list first.
ExpectedRebinds(a) ==
    LET HasMain(b) == IsSome(b.main)
        Attrs(binds, device) ==
            [k \in 1..Len(binds) |->
                <<device, IF binds[k].origin = "Generated" THEN Some("press") ELSE None>>]
    IN  Attrs(SelectSeq(Unwrap(a.custom_binds).keyboard, HasMain), "keyboard")
        \o Attrs(SelectSeq(Unwrap(a.custom_binds).mouse, HasMain), "mouse")

\* C15: when generate_mapping_xml has returned Ok, every action element of
\* the file names an action of the graph whose custom_binds holds a bind that
\* is not unbound, and every actionmap element names a map with such an
\* action; so an action with only default binds and an action whose custom
\* binds are all explicit unbinds have no element.
EmissionMinimal ==
    op.kind = "generate_mapping_xml" /\ ret = Some("Ok") =>
        \A i \in 1..Len(FileEvents) :
            /\ FileEvents[i].tag = "actionmap" =>
                   \E p \in ActionPositions(action_maps) :
                       /\ Some(action_maps[p[1]].name) = FileEvents[i].name
                       /\ HasActiveCustom(ActionAt(action_maps, p))
            /\ FileEvents[i].tag = "action" =>
                   \E p \in PositionsNamed(action_maps,
                                           EnclosingName(FileEvents, "actionmap", i),
                                           FileEvents[i].name) :
                       HasActiveCustom(ActionAt(action_maps, p))

\* A complete document has been written for a graph with an action that has
\* only a default bind, an action whose custom binds are all unbinds, and an
\* action with an active custom bind, which has its element.
EmissionMinimalWitness ==
    /\ op.kind = "generate_mapping_xml"
    /\ ret = Some("Ok")
    /\ FileEvents # << >>
    /\ FileEvents[Len(FileEvents)].tag = "/ActionMaps"
    /\ \E i \in 1..Len(FileEvents) : FileEvents[i].tag = "action"
    /\ \E p, q \in ActionPositions(action_maps) :
           /\ ActionAt(action_maps, p).custom_binds = None
           /\ SomeBound(ActionAt(action_maps, p).default_binds)
           /\ IsSome(ActionAt(action_maps, q).custom_binds)
           /\ all_binds(Unwrap(ActionAt(action_maps, q).custom_binds)) # << >>
           /\ ~SomeBound(Unwrap(ActionAt(action_maps, q).custom_binds))

EmissionAllOrNothing ==
    op.kind = "generate_mapping_xml" =>
        \/ /\ ret = Some("Ok")
           /\ output = Some(MappingEvents(Graph, op.devices, op.profile_name))
        \/ /\ ret = Some("Err")
           /\ output = op.before

----------------------------------------------------------------------------
(* action_bindings_store.rs: ActionBindingsStore.  heap holds the graphs    *)
(* behind the Arc pointers ever made, inner is the pointer the ArcSwap      *)
(* holds, held[r] the snapshot reader r holds and pending[w] the pointer    *)
(* writer w has made with Arc::new and not yet stored.                      *)

\* The graphs the writers pass to replace: two loaded default profiles that
\* differ in their action maps and in their arena.
StoreGraphs ==
    {load_default_profile(doc, SKIP_ACTION_MAPS, ACTION_MAP_UI_CATEGORIES) :
        doc \in EmitDefaultDocs}

\* A store that copies the new graph over the graph the pointer refers to.
arc_swap_store_in_place(cells, current, new) ==
    [heap |-> [cells EXCEPT ![current] = cells[new]], inner |-> current]

\* ArcSwap::store: the pointer is exchanged in one atomic step and no graph
\* is written to.
arc_swap_store(cells, current, new) ==
    [heap |-> cells, inner |-> new]

\* replace, first half: Arc::new(new_ab).
Replace(w, new_ab) ==
    /\ pending[w] = None
    /\ Len(heap) < 1 + MaxAllocs
    /\ heap' = Append(heap, new_ab)
    /\ pending' = [pending EXCEPT ![w] = Some(Len(heap) + 1)]
    /\ UNCHANGED <<inner, held, output, action_maps, activation, op, ret, loaded, exec, button>>

\* clear, first half: Arc::new(ActionBindings::default()).
Clear(w) ==
    /\ pending[w] = None
    /\ Len(heap) < 1 + MaxAllocs
    /\ heap' = Append(heap, ActionBindingsDefault)
    /\ pending' = [pending EXCEPT ![w] = Some(Len(heap) + 1)]
    /\ UNCHANGED <<inner, held, output, action_maps, activation, op, ret, loaded, exec, button>>

\* replace and clear, second half: self.inner.store(..).
Store(w) ==
    /\ pending[w] # None
    /\ heap' = arc_swap_store(heap, inner, Unwrap(pending[w])).heap
    /\ inner' = arc_swap_store(heap, inner, Unwrap(pending[w])).inner
    /\ pending' = [pending EXCEPT ![w] = None]
    /\ UNCHANGED <<held, output, action_maps, activation, op, ret, loaded, exec, button>>

\* snapshot: self.inner.load_full().
Snapshot(r) ==
    /\ held[r] = None
    /\ held' = [held EXCEPT ![r] = Some(inner)]
    /\ UNCHANGED <<heap, inner, pending, output, action_maps, activation, op, ret, loaded, exec, button>>

\* The reader drops its snapshot.
DropSnapshot(r) ==
    /\ held[r] # None
    /\ held' = [held EXCEPT ![r] = None]
    /\ UNCHANGED <<heap, inner, pending, output, action_maps, activation, op, ret, loaded, exec, button>>

NextStore ==
    \/ \E w \in WRITERS, new_ab \in StoreGraphs : Replace(w, new_ab)
    \/ \E w \in WRITERS : Clear(w)
    \/ \E w \in WRITERS : Store(w)
    \/ \E r \in READERS : Snapshot(r)
    \/ \E r \in READERS : DropSnapshot(r)

SpecStore == Init /\ [][NextStore]_vars

\* C19: under every interleaving of snapshot, replace and clear, a snapshot
\* a reader holds is the initial empty graph, the empty graph of a clear or
\* one graph passed whole to a replace, and the graph behind a snapshot a
\* reader keeps holding is not changed by any step.
SnapshotIsolation ==
    [][/\ \A r \in READERS :
              IsSome(held'[r]) =>
                  heap'[Unwrap(held'[r])] \in StoreGraphs \cup {ActionBindingsDefault}
       /\ \A r \in READERS :
              IsSome(held[r]) /\ held'[r] = held[r] =>
                  heap'[Unwrap(held[r])] = heap[Unwrap(held[r])]
      ]_vars

\* Two readers hold different graphs: one took its snapshot before a replace
\* and a clear were stored and still holds a loaded graph, the other holds
\* the current, empty graph, while a writer has a third graph ready to store.
SnapshotIsolationWitness ==
    /\ \E r1, r2 \in READERS :
           /\ IsSome(held[r1]) /\ IsSome(held[r2])
           /\ Unwrap(held[r1]) # inner
           /\ Unwrap(held[r2]) = inner
           /\ heap[Unwrap(held[r1])] \in StoreGraphs
           /\ heap[inner] = ActionBindingsDefault
           /\ inner # 1
    /\ \E w \in WRITERS : IsSome(pending[w])
    /\ \A g, h \in StoreGraphs :
           g # h => g.action_maps # h.action_maps /\ g.activation # h.activation


\* The main a main-candidate segment stands for.
MainOfWord ==
    ("f1" :> BindMain("Key", "f1")) @@ ("a" :> BindMain("Key", "a")) @@
    ("mouse2" :> BindMain("Mouse", "Right")) @@ ("mouse6" :> BindMain("Mouse", "X3")) @@
    ("mwheel_up" :> BindMain("MouseWheelUp", "")) @@
    ("maxis_x" :> BindMain("MouseAxis", "x")) @@ ("hmd_pitch" :> BindMain("HMD", "pitch"))

\* C21: on an input of recognised segments, from_string with no main
\* candidate and exactly one modifier returns the bind whose main is that
\* modifier key, with no modifiers and not unbound; with exactly one main
\* candidate it returns the bind with that main and exactly the modifiers
\* named.  Both binds carry the activation index the caller passed and
\* origin User.
PromotionAndSingleMain ==
    op.kind = "from_string" /\ ~op.input.blank /\ ~HasUnknownSegment(op.input) =>
        /\ MainCandidates(op.input) = 0 /\ Cardinality(ModifiersNamed(op.input)) = 1 =>
               /\ ret.ok
               /\ \E k \in ModifiersNamed(op.input) : ret.bind.main = Some(BindMain("Key", k))
               /\ ret.bind.modifiers = {}
               /\ ~ret.bind.is_unbound
               /\ ret.bind.activation_mode_idx = op.idx
               /\ ret.bind.origin = "User"
        /\ MainCandidates(op.input) = 1 =>
               /\ ret.ok
               /\ \E i \in 1..Len(SegmentsOf(op.input)) :
                      /\ IsMainSegment(SegmentsOf(op.input)[i])
                      /\ ret.bind.main = Some(MainOfWord[SegmentsOf(op.input)[i][2]])
               /\ ret.bind.modifiers = ModifiersNamed(op.input)
               /\ ~ret.bind.is_unbound
               /\ ret.bind.activation_mode_idx = op.idx
               /\ ret.bind.origin = "User"

\* from_string has promoted the modifier of "LAlt", passed with an index.
PromotionAndSingleMainWitness ==
    /\ op.kind = "from_string"
    /\ op.input = Text("", <<"LAlt">>)
    /\ op.idx = Some(1)
    /\ MainCandidates(op.input) = 0
    /\ ret.ok
    /\ ret.bind.main = Some(BindMain("Key", "lalt"))
    /\ ret.bind.activation_mode_idx = Some(1)

----------------------------------------------------------------------------
(* Activation-mode resolution on its own: one call of                      *)
(* ActivationMode::resolve or of Binds::from_node on an arena that holds   *)
(* the ActivationMode elements of a default document.                      *)

ScopeNames == {None, Some("press"), Some("hold")}

\* Nodes given to resolve: with and without a mode name, with and without
\* timing attributes.
ResolveNodes ==
    {[ModeNode(None, a) EXCEPT !.activationMode = n] :
        n \in ScopeNames, a \in {None, HoldAttrs(4), HoldAttrs(6)}}

\* Action nodes given to Binds::from_node: a flat keyboard attribute, or one
\* device node with one inputdata node, each of the three scopes with or
\* without a mode name and with or without timing attributes of its own.
BindActionNodes ==
    {ActionNode(Some("a1"), an, None, Some(Text("", <<"f1">>)), None, << >>) :
        an \in ScopeNames}
    \cup {ActionNode(Some("a1"), an, aa, None, None,
              <<DeviceNode("keyboard", None, dn, da,
                    <<InputDataNode(Some(Text("", <<"f1">>)), in, ia)>>)>>) :
              an \in ScopeNames, dn \in ScopeNames, in \in ScopeNames,
              aa \in {None, HoldAttrs(3)}, da \in {None, HoldAttrs(4)},
              ia \in {None, HoldAttrs(6)}}

\* The arena after the loop of load_default_profile over the ActivationMode
\* elements of a document.
InitBinds ==
    /\ action_maps = EmptyGraphMaps
    /\ activation \in {InsertModeNodes(ms, 1, ActivationArenaDefault) :
                           ms \in SeqsUpTo(ModeNodes, MaxModeNodes)}
    /\ op = [kind |-> "new"]
    /\ ret = None
    /\ loaded = None
    /\ EnvInit

\* ActivationMode::resolve(node, fallback, &mut arena)
Resolve(node, fallback) ==
    /\ op.kind = "new"
    /\ op' = [kind |-> "resolve", node |-> node, fallback |-> fallback]
    /\ ret' = resolve(node, fallback, activation)[1]
    /\ activation' = resolve(node, fallback, activation)[2]
    /\ UNCHANGED <<action_maps, loaded>>
    /\ UNCHANGED env

\* Binds::from_node(action_node, &mut arena); ret is [out, errors].
BindsFromNode(action_node) ==
    /\ op.kind = "new"
    /\ op' = [kind |-> "binds_from_node", node |-> action_node]
    /\ ret' = [out |-> Binds_from_node(action_node, activation).out,
               errors |-> Binds_from_node(action_node, activation).errors]
    /\ activation' = Binds_from_node(action_node, activation).arena
    /\ UNCHANGED <<action_maps, loaded>>
    /\ UNCHANGED env

NextBinds ==
    \/ \E node \in ResolveNodes, fallback \in {None} \cup {Some(f) : f \in ResolveNodes} :
           Resolve(node, fallback)
    \/ \E action_node \in BindActionNodes : BindsFromNode(action_node)

SpecBinds == InitBinds /\ [][NextBinds]_vars

\* The name is a key of the name index of the arena.
NameInArena(arena, name) == IsSome(name) /\ Unwrap(name) \in DOMAIN arena.name_to_index

\* C22: resolve on a node that names a mode.  When the arena knows the name
\* it returns the position of the name and leaves the arena as it was, also
\* when the node has timing attributes.  When the arena does not know the
\* name and neither the node nor the fallback has a timing attribute it
\* returns no position and leaves the arena as it was; Binds::from_node then
\* still gives the bind, with no mode, and reports no error.
NamedResolution ==
    [][/\ op'.kind = "resolve" /\ NameInArena(activation, op'.node.activationMode) =>
              /\ ret' = Some(activation.name_to_index[Unwrap(op'.node.activationMode)])
              /\ activation' = activation
       /\ /\ op'.kind = "resolve"
          /\ IsSome(op'.node.activationMode)
          /\ ~NameInArena(activation, op'.node.activationMode)
          /\ op'.node.attrs = None
          /\ (op'.fallback = None \/ Unwrap(op'.fallback).attrs = None)
          => /\ ret' = None
             /\ activation' = activation
       /\ /\ op'.kind = "binds_from_node"
          /\ op'.node.devices = << >>
          /\ IsSome(op'.node.activationMode)
          /\ ~NameInArena(activation, op'.node.activationMode)
          => /\ ret'.errors = 0
             /\ Len(ret'.out.keyboard) = 1
             /\ ret'.out.keyboard[1].main = Some(BindMain("Key", "f1"))
             /\ ret'.out.keyboard[1].activation_mode_idx = None
             /\ activation' = activation
      ]_vars

\* resolve has returned the position of a name the arena knows for a node
\* whose own timing attributes have another key, and in another run no
\* position for a name that nothing defines.
NamedResolutionWitness ==
    \/ /\ op.kind = "resolve"
       /\ NameInArena(activation, op.node.activationMode)
       /\ IsSome(op.node.attrs)
       /\ IsSome(ret)
       /\ ModeKey(activation.modes[Unwrap(ret) + 1]) # ModeKey(Unwrap(op.node.attrs))
       /\ \A i \in 1..Len(activation.modes) :
              ModeKey(activation.modes[i]) # ModeKey(Unwrap(op.node.attrs))
    \/ /\ op.kind = "binds_from_node"
       /\ op.node.devices = << >>
       /\ op.node.activationMode = Some("hold")
       /\ ~NameInArena(activation, Some("hold"))
       /\ activation.modes # << >>
       /\ Len(ret.out.keyboard) = 1
       /\ ret.out.keyboard[1].activation_mode_idx = None


\* The position insert_or_get_mode gives a mode with these timing attributes
\* whose name the arena does not know: that of its key, else the next free one.
PositionOfAttrs(arena, attrs) ==
    IF ModeKey(Unwrap(attrs)) \in DOMAIN arena.by_key
    THEN arena.by_key[ModeKey(Unwrap(attrs))]
    ELSE Len(arena.modes)

\* What a scope resolves to by itself, its mode name before its timing
\* attributes: <<found, position>>.
ScopeNameFirst(arena, node) ==
    IF NameInArena(arena, node.activationMode)
    THEN <<TRUE, arena.name_to_index[Unwrap(node.activationMode)]>>
    ELSE IF IsSome(node.attrs) THEN <<TRUE, PositionOfAttrs(arena, node.attrs)>>
    ELSE <<FALSE, 0>>

\* The same with its timing attributes before its mode name.
ScopeAttrsFirst(arena, node) ==
    IF IsSome(node.attrs) THEN <<TRUE, PositionOfAttrs(arena, node.attrs)>>
    ELSE IF NameInArena(arena, node.activationMode)
    THEN <<TRUE, arena.name_to_index[Unwrap(node.activationMode)]>>
    ELSE <<FALSE, 0>>

\* The first scope that found a mode, the narrowest first; None when none did.
NarrowestOf(scopes) ==
    IF scopes[1][1] THEN Some(scopes[1][2])
    ELSE IF scopes[2][1] THEN Some(scopes[2][2])
    ELSE IF scopes[3][1] THEN Some(scopes[3][2])
    ELSE None

IsNonExecutable(b) ==
    IsSome(b.main) /\ Unwrap(b.main).kind \in {"MouseWheelUp", "MouseWheelDown", "MouseAxis", "HMD"}

\* Every bind of the action, default and custom.
BindsOfAction(a) ==
    SeqToSet(all_binds(a.default_binds))
    \cup (IF IsSome(a.custom_binds) THEN SeqToSet(all_binds(Unwrap(a.custom_binds))) ELSE {})

\* C24: wheel, axis and head-tracking binds do not count as active binds.
\* After generate_missing_binds an action whose binds before the call all
\* had such a main holds a generated bind, and when generate_mapping_xml has
\* returned Ok no action whose custom binds all have such a main has an
\* action element in the file.
NonExecutableNotActive ==
    [][/\ op'.kind = "generate_missing_binds" =>
              \A p \in ActionPositions(action_maps) :
                  /\ BindsOfAction(ActionAt(action_maps, p)) # {}
                  /\ \A b \in BindsOfAction(ActionAt(action_maps, p)) : IsNonExecutable(b)
                  => /\ IsSome(ActionAt(action_maps', p).custom_binds)
                     /\ \E b \in SeqToSet(all_binds(Unwrap(ActionAt(action_maps', p).custom_binds))) :
                            b.origin = "Generated"
       /\ op'.kind = "generate_mapping_xml" /\ ret' = Some("Ok") /\ IsSome(output') =>
              \A i \in 1..Len(Unwrap(output')) :
                  Unwrap(output')[i].tag = "action" =>
                      \A p \in PositionsNamed(action_maps',
                                   EnclosingName(Unwrap(output'), "actionmap", i),
                                   Unwrap(output')[i].name) :
                          \E b \in SeqToSet(all_binds(Unwrap(ActionAt(action_maps', p).custom_binds))) :
                              ~b.is_unbound /\ ~IsNonExecutable(b)
      ]_vars


\* C25: the pair of a bind generate_missing_binds writes on an action is the
\* pair of no bind that another action of the same category group held
\* before the run, default or custom, of the user or generated, and of no
\* bind the same run writes on another action of the same category group.
GeneratedAvoidsGroup ==
    [][op'.kind = "generate_missing_binds" =>
          \A p \in FilledBy(action_maps, action_maps') :
              /\ \A q \in ActionPositions(action_maps) \ {p} :
                     SameGroup(CategoryAt(action_maps, p), CategoryAt(action_maps, q)) =>
                         FilledPair(action_maps', p) \notin PairsOf(ActionAt(action_maps, q))
              /\ \A q \in FilledBy(action_maps, action_maps') \ {p} :
                     SameGroup(CategoryAt(action_maps, p), CategoryAt(action_maps, q)) =>
                         FilledPair(action_maps', p) # FilledPair(action_maps', q)
      ]_vars

\* A first run has filled actions of two maps whose categories differ and
\* share a group, in a graph where a third action of the group holds an
\* active default bind.
GeneratedAvoidsGroupWitness ==
    /\ op.kind = "generate_missing_binds"
    /\ ~op.again
    /\ \E p, q, r \in ActionPositions(action_maps) :
           /\ CategoryAt(action_maps, p) # CategoryAt(action_maps, q)
           /\ SameGroup(CategoryAt(action_maps, p), CategoryAt(action_maps, q))
           /\ SameGroup(CategoryAt(action_maps, p), CategoryAt(action_maps, r))
           /\ r \notin {p, q}
           /\ SomeBound(ActionAt(action_maps, r).default_binds)
           /\ \A x \in {p, q} :
                  /\ IsSome(ActionAt(action_maps, x).custom_binds)
                  /\ Unwrap(ActionAt(action_maps, x).custom_binds).keyboard # << >>
                  /\ Unwrap(ActionAt(action_maps, x).custom_binds).keyboard[1].origin = "Generated"


\* C26: when generate_mapping_xml has returned Ok, every rebind of the file
\* with device="keyboard" has an input that starts with kb<N>_ and every
\* rebind with device="mouse" has an input that starts with mo<N>_.
RebindDeviceAgrees ==
    op.kind = "generate_mapping_xml" /\ ret = Some("Ok") =>
        \A i \in 1..Len(FileEvents) :
            FileEvents[i].tag = "rebind" =>
                /\ FileEvents[i].device = Some("keyboard") => Unwrap(FileEvents[i].input).device = "kb"
                /\ FileEvents[i].device = Some("mouse") => Unwrap(FileEvents[i].input).device = "mo"


\* C27: a load_default_profile that returns an error leaves the action maps
\* and the arena as they were before the call, and an apply_custom_profile
\* that returns an error changes the custom_binds of no action.
FailedCallKeepsGraph ==
    [][/\ op'.kind = "load_default_profile" /\ ret' = Some("Err") =>
              /\ action_maps' = action_maps
              /\ activation' = activation
       /\ op'.kind = "apply_custom_profile" /\ ret' = Some("Err") =>
              /\ ActionPositions(action_maps') = ActionPositions(action_maps)
              /\ \A p \in ActionPositions(action_maps) :
                     ActionAt(action_maps', p).custom_binds = ActionAt(action_maps, p).custom_binds
      ]_vars

\* A load has failed on a graph that holds modes, a rebind of the user and a
\* generated bind.
FailedCallKeepsGraphWitness ==
    /\ op.kind = "load_default_profile"
    /\ ret = Some("Err")
    /\ activation.modes # << >>
    /\ \E b, c \in CustomBindsOf(action_maps) : b.origin = "User" /\ c.origin = "Generated"

----------------------------------------------------------------------------
(* sc_action.rs: ScAction.  key_down and key_up run on the event thread,    *)
(* one handler at a time; each long-press timer is a thread of its own.     *)
(* The threads meet only at the two AtomicBool, so a handler is split at    *)
(* its first atomic store and a timer between its load of long_cancel and   *)
(* its store of long_fired.  flags[k] is the pair of AtomicBool behind the  *)
(* k-th pair of Arcs, sc_action.arcs the pair the ScAction points to and    *)
(* timers[i].arcs the pair timer i has cloned.                              *)

\* The settings maps an event comes with: one that does not deserialize and
\* every choice of a short and a long action.
SettingsMaps ==
    {[valid |-> FALSE, short_id |-> None, long_id |-> None]}
    \cup {[valid |-> TRUE, short_id |-> s, long_id |-> l] :
             s \in {None, Some("m1.a1")}, l \in {None, Some("m1.a2")}}

\* ScActionSettings::from_map
ScActionSettings_from_map(map) ==
    IF map.valid THEN Some([short_id |-> map.short_id, long_id |-> map.long_id]) ELSE None

\* ExecSend sent on EXEC_SEND; press and by tell the press and the thread it
\* came from, during the press that was the last one begun when it was sent.
ExecSend(action_id, press, by) ==
    [action_id |-> action_id, press |-> press, by |-> by, during |-> Len(presses)]

\* The key_up of press p has arrived.
IsReleased(p) == IsSome(presses[p].up)

\* will_appear: fresh Arcs, which no timer holds.
WillAppear ==
    /\ sc_action.pc = "released"
    /\ Len(flags) < 1 + MaxAppears
    /\ flags' = Append(flags, [long_cancel |-> FALSE, long_fired |-> FALSE])
    /\ sc_action' = [pc |-> "released", arcs |-> Len(flags) + 1,
                     short_fired_on_down |-> FALSE]
    /\ UNCHANGED <<timers, bus, presses>>
    /\ UNCHANGED <<action_maps, activation, op, ret, loaded, output, heap, inner, held,
                   pending, exec>>

\* key_down up to self.long_cancel.store(false).
KeyDownBegin(settings) ==
    /\ sc_action.pc = "released"
    /\ Len(presses) < MaxPresses
    /\ flags' = [flags EXCEPT ![sc_action.arcs].long_cancel = FALSE]
    /\ sc_action' = [sc_action EXCEPT !.pc = "key_down"]
    /\ presses' = Append(presses, [down |-> settings, up |-> None])
    /\ UNCHANGED <<timers, bus>>
    /\ UNCHANGED <<action_maps, activation, op, ret, loaded, output, heap, inner, held,
                   pending, exec>>

\* key_down from self.long_fired.store(false) to its return: without a long
\* action the short one is sent at once, with one the timer thread is
\* spawned with clones of the two Arcs.
KeyDownEnd ==
    LET settings == ScActionSettings_from_map(presses[Len(presses)].down) IN
    /\ sc_action.pc = "key_down"
    /\ flags' = [flags EXCEPT ![sc_action.arcs].long_fired = FALSE]
    /\ IF settings = None
       THEN /\ sc_action' = [sc_action EXCEPT !.pc = "held", !.short_fired_on_down = FALSE]
            /\ UNCHANGED <<timers, bus>>
       ELSE IF Unwrap(settings).long_id = None
       THEN IF IsSome(Unwrap(settings).short_id)
            THEN /\ bus' = Append(bus, ExecSend(Unwrap(Unwrap(settings).short_id),
                                                Len(presses), "key_down"))
                 /\ sc_action' = [sc_action EXCEPT !.pc = "held",
                                                   !.short_fired_on_down = TRUE]
                 /\ UNCHANGED timers
            ELSE /\ sc_action' = [sc_action EXCEPT !.pc = "held",
                                                   !.short_fired_on_down = FALSE]
                 /\ UNCHANGED <<timers, bus>>
       ELSE /\ timers' = Append(timers, [pc |-> "sleeping", arcs |-> sc_action.arcs,
                                         long_id |-> Unwrap(Unwrap(settings).long_id),
                                         press |-> Len(presses),
                                         released_at_expiry |-> FALSE])
            /\ sc_action' = [sc_action EXCEPT !.pc = "held", !.short_fired_on_down = FALSE]
            /\ UNCHANGED bus
    /\ UNCHANGED presses
    /\ UNCHANGED <<action_maps, activation, op, ret, loaded, output, heap, inner, held,
                   pending, exec>>

\* key_up up to self.long_cancel.store(true).
KeyUpBegin(settings) ==
    /\ sc_action.pc = "held"
    /\ flags' = [flags EXCEPT ![sc_action.arcs].long_cancel = TRUE]
    /\ sc_action' = [sc_action EXCEPT !.pc = "key_up"]
    /\ presses' = [presses EXCEPT ![Len(presses)].up = Some(settings)]
    /\ UNCHANGED <<timers, bus>>
    /\ UNCHANGED <<action_maps, activation, op, ret, loaded, output, heap, inner, held,
                   pending, exec>>

\* key_up from self.long_fired.load() to its return.
KeyUpEnd ==
    LET settings == ScActionSettings_from_map(Unwrap(presses[Len(presses)].up)) IN
    /\ sc_action.pc = "key_up"
    /\ sc_action' = [sc_action EXCEPT !.pc = "released"]
    /\ IF \/ flags[sc_action.arcs].long_fired
          \/ sc_action.short_fired_on_down
          \/ settings = None
          \/ Unwrap(settings).short_id = None
       THEN UNCHANGED bus
       ELSE bus' = Append(bus, ExecSend(Unwrap(Unwrap(settings).short_id),
                                        Len(presses), "key_up"))
    /\ UNCHANGED <<flags, timers, presses>>
    /\ UNCHANGED <<action_maps, activation, op, ret, loaded, output, heap, inner, held,
                   pending, exec>>

\* The timer thread: thread::sleep(threshold) ends and cancel.load() is read.
TimerExpire(i) ==
    /\ timers[i].pc = "sleeping"
    /\ timers' = [timers EXCEPT
           ![i].pc = IF flags[timers[i].arcs].long_cancel THEN "cancelled" ELSE "expired",
           ![i].released_at_expiry = IsReleased(timers[i].press)]
    /\ UNCHANGED <<flags, sc_action, bus, presses>>
    /\ UNCHANGED <<action_maps, activation, op, ret, loaded, output, heap, inner, held,
                   pending, exec>>

\* The timer thread: long_fired.store(true) and the long action is sent.
TimerFire(i) ==
    /\ timers[i].pc = "expired"
    /\ flags' = [flags EXCEPT ![timers[i].arcs].long_fired = TRUE]
    /\ bus' = Append(bus, ExecSend(timers[i].long_id, timers[i].press, "timer"))
    /\ timers' = [timers EXCEPT ![i].pc = "fired"]
    /\ UNCHANGED <<sc_action, presses>>
    /\ UNCHANGED <<action_maps, activation, op, ret, loaded, output, heap, inner, held,
                   pending, exec>>

NextScAction ==
    \/ WillAppear
    \/ \E settings \in SettingsMaps : KeyDownBegin(settings)
    \/ KeyDownEnd
    \/ \E settings \in SettingsMaps : KeyUpBegin(settings)
    \/ KeyUpEnd
    \/ \E i \in 1..Len(timers) : TimerExpire(i)
    \/ \E i \in 1..Len(timers) : TimerFire(i)

SpecScAction == Init /\ [][NextScAction]_vars

\* The messages of press p.
SentFor(p) == {i \in 1..Len(bus) : bus[i].press = p}

\* Press p came with a short and a long action on key_down and on key_up,
\* its key_up has returned and its timer thread has ended.
PressIsOver(p) ==
    /\ presses[p].down.valid /\ IsSome(presses[p].down.short_id)
    /\ IsSome(presses[p].down.long_id)
    /\ IsSome(presses[p].up) /\ Unwrap(presses[p].up) = presses[p].down
    /\ p < Len(presses) \/ sc_action.pc = "released"
    /\ \A i \in 1..Len(timers) :
           timers[i].press = p => timers[i].pc \in {"cancelled", "fired"}

\* C28: a press of a button with a short and a long action sends exactly one
\* execute message under every interleaving of the timer thread with
\* key_up: the long action if the sleep of the timer ended before the release
\* and the timer fired, the short action otherwise.
OneMessagePerPress ==
    \A p \in 1..Len(presses) :
        PressIsOver(p) =>
            /\ Cardinality(SentFor(p)) = 1
            /\ \A i \in SentFor(p) :
                   bus[i].action_id =
                       IF \E t \in 1..Len(timers) :
                              /\ timers[t].press = p /\ timers[t].pc = "fired"
                              /\ ~timers[t].released_at_expiry
                       THEN Unwrap(presses[p].down.long_id)
                       ELSE Unwrap(presses[p].down.short_id)

\* C29: a timer goes on to send the long action only if the key_up of the
\* press that started it had not arrived when its sleep ended, and no more
\* than one long action is sent between one key_down and the next.
StaleTimerNeverFires ==
    /\ \A i \in 1..Len(timers) :
           timers[i].pc \in {"expired", "fired"} => ~timers[i].released_at_expiry
    /\ \A p \in 1..Len(presses) :
           Cardinality({i \in 1..Len(bus) : bus[i].by = "timer" /\ bus[i].during = p}) <= 1

----------------------------------------------------------------------------
(* exec_adapter.rs: handle_exec, run by the thread of the exec adapter      *)
(* while the thread of the bindings adapter calls replace and clear.  An id *)
(* is the sequence of the words between its dots.                           *)

\* The action ids of the messages: two actions with a keyboard bind and an
\* id without a dot.
ExecIds == {<<"m1", "a1">>, <<"m2", "a1">>, <<"m1">>}

\* id.splitn(2, '.'): the word before the first dot and the rest.
SplitN2(id) == IF Len(id) < 2 THEN None ELSE Some([map |-> id[1], action |-> Tail(id)])

\* ActionBindingsStore::get_binding_by_id on the graph its snapshot gave:
\* a clone of the action, or None.
get_binding_by_id(snap, id) ==
    LET parts == SplitN2(id)
        found == {p \in ActionPositions(snap.action_maps) :
                     /\ snap.action_maps[p[1]].name = Unwrap(parts).map
                     /\ <<ActionAt(snap.action_maps, p).action_name>> = Unwrap(parts).action}
    IN  IF parts = None \/ found = {} THEN None
        ELSE Some(ActionAt(snap.action_maps, CHOOSE p \in found : TRUE))

\* The first bind of the list that is not unbound.
FirstBound(list) ==
    LET at == {i \in 1..Len(list) : ~list[i].is_unbound} IN
    IF at = {} THEN None
    ELSE Some(list[CHOOSE i \in at : \A j \in at : i <= j])

\* ActionBinding::simulate_using(.., bindings): the bind is the first bound
\* one of the keyboard list, else of the mouse list, of custom_binds or else
\* default_binds; its index, or else the one of the action, is looked up in
\* bindings.activation.  The keys sent are decided by the bind and the mode.
simulate_using(action, bindings) ==
    LET src == IF IsSome(action.custom_binds) THEN Unwrap(action.custom_binds)
               ELSE action.default_binds
        bind == IF IsSome(FirstBound(src.keyboard)) THEN FirstBound(src.keyboard)
                ELSE FirstBound(src.mouse)
        am_ix == IF IsSome(Unwrap(bind).activation_mode_idx)
                 THEN Unwrap(bind).activation_mode_idx
                 ELSE action.activation_mode
    IN  IF bind = None THEN [ok |-> FALSE, err |-> "No keyboard or mouse bind found"]
        ELSE IF am_ix = None THEN [ok |-> FALSE, err |-> "No activation mode available"]
        ELSE IF Unwrap(am_ix) >= Len(bindings.activation.modes)
        THEN [ok |-> FALSE, err |-> "Activation mode index out of range"]
        ELSE IF Unwrap(bind).main = None THEN [ok |-> FALSE, err |-> "Bind has no main input"]
        ELSE [ok |-> TRUE, bind |-> Unwrap(bind),
              mode |-> bindings.activation.modes[Unwrap(am_ix) + 1]]

\* handle_exec up to the return of store.get_binding_by_id: the first
\* snapshot; without the action the call returns an error.
HandleExecGetBinding(action_id) ==
    LET action == get_binding_by_id(heap[inner], action_id) IN
    /\ exec.pc = "idle"
    /\ exec' = [pc |-> IF action = None THEN "idle" ELSE "have_action",
                action |-> action, action_from |-> Some(inner),
                bindings_from |-> None,
                ret |-> IF action = None THEN Some([ok |-> FALSE, err |-> "not found"])
                        ELSE None]
    /\ UNCHANGED <<action_maps, activation, op, ret, loaded, output, heap, inner, held,
                   pending, button>>

\* handle_exec from store.snapshot() to its return: the second snapshot and
\* simulate_using with it.
HandleExecSimulate ==
    /\ exec.pc = "have_action"
    /\ exec' = [exec EXCEPT !.pc = "idle", !.bindings_from = Some(inner),
                            !.ret = Some(simulate_using(Unwrap(exec.action), heap[inner]))]
    /\ UNCHANGED <<action_maps, activation, op, ret, loaded, output, heap, inner, held,
                   pending, button>>

NextExec ==
    \/ \E w \in WRITERS, new_ab \in StoreGraphs : Replace(w, new_ab)
    \/ \E w \in WRITERS : Clear(w)
    \/ \E w \in WRITERS : Store(w)
    \/ \E action_id \in ExecIds : HandleExecGetBinding(action_id)
    \/ HandleExecSimulate

SpecExec == Init /\ [][NextExec]_vars

\* C30: while replace and clear run concurrently, the action handle_exec
\* simulates and the arena it resolves the mode index in come from the same
\* graph, and the mode found is the one the index has in the graph of the
\* action.
ExecUsesOneSnapshot ==
    IsSome(exec.bindings_from) =>
        /\ heap[Unwrap(exec.action_from)] = heap[Unwrap(exec.bindings_from)]
        /\ Unwrap(exec.ret) =
               simulate_using(Unwrap(exec.action), heap[Unwrap(exec.action_from)])

====
